---------------------------- MODULE Spec2Model ----------------------------
(***************************************************************************)
(* A model of the simulation kernel of packwolff/chaos-lane-driver.        *)
(*                                                                         *)
(* The repository holds several builds of one React provider:              *)
(*   "p003"  src/unnamed/part_003  (EnhancedSimulationProvider, optimized) *)
(*   "p006"  src/unnamed/part_006  (EnhancedSimulationProvider, earlier)   *)
(*   "p000"  src/unnamed/part_000  (SimulationProvider, simple)            *)
(*   "esc"   src/src/components/simulation/EnhancedSimulationContext.tsx   *)
(* A run mounts one of them; the variable `variant` says which.            *)
(*                                                                         *)
(* Fixed point units (JavaScript numbers are doubles):                     *)
(*   time      1 ms            (30 s = 30000)                              *)
(*   speed     10^-4 m/s       (13.9 m/s = 139000), so that                *)
(*             acceleration [0.1 m/s^2] * dt [ms] is exact                 *)
(*   position  1 mm            (laneWidth 3.25 m = 3250)                   *)
(*   factor    1/10000         (speedMultiplier 1.0 = 10000)               *)
(*   CO2       10^-6 g                                                     *)
(*   percent   1/100 %         (congestionLevel 20 = 2000)                 *)
(*   rate      1/100 per min   (throughput 100 = 10000)                    *)
(***************************************************************************)
EXTENDS Integers, Sequences, FiniteSets, TLC

VARIABLES
    variant,              \* which build of the provider is mounted
    trafficSignal,        \* useState trafficSignal
    metrics,              \* useState metrics (the fields the kernel reads back)
    vehicles,             \* useState vehicles: a sequence of vehicle records
    obstructions,         \* useState obstructions: a sequence of obstruction records
    selectedTool,         \* useState selectedTool ("none" for null)
    vehicleIdCounter,     \* useRef vehicleIdCounter
    obstructionIdCounter, \* useRef obstructionIdCounter
    completedVehicles,    \* useRef completedVehiclesRef
    isRunning,            \* useState isRunning
    dtMs,                 \* the deltaTime the driver hands to a tick of this run
    loopObstructions,     \* esc: the obstruction list captured by the loop's closure
    demoTimer,            \* esc: the scenario of a pending startDemo timer, or "none"
    isDemoMode,           \* esc: useState isDemoMode
    currentScenario,      \* esc: useState currentScenario ("none" for null)
    spawnTimers,          \* esc: the pending setTimeout(() => spawnVehicle()) timers
    demoTimerStale,       \* history: resetSimulation() or stopDemo() ran after the
                          \*          pending startDemo timer was scheduled
    firedTimer,           \* history: the spawn timer that fired last
    loops,                \* part_002: the live animate loops, each with the isRunning
                          \*           its updateSimulation closed over
    pendingEffect,        \* part_002: updateSimulation was re-created and the
                          \*           animation-loop effect has not run for it yet
    frameCalls,           \* history: calls of updateSimulation in the last frame
    op,                   \* history: the operation that produced this state
    lastDt,               \* history: the deltaTime of the last signal tick
    elapsed,              \* history: deltaTime handed to the signal since Init / reset
    lastPlace,            \* history: the arguments of the last placement request
    blockedRun,           \* history: consecutive frames the first vehicle was updated
                          \*          inside a blocking obstruction
    frames,               \* frames the animation loop has run since it started
    lastSpawnTime,        \* part_000 / esc: useRef lastSpawnTime (ms on the frame clock)
    isRoundabout,         \* part_003 / part_006: useState isRoundabout
    simulationStartTime   \* part_003 / part_006: useRef simulationStartTime (ms)

vars == << variant, trafficSignal, metrics, vehicles, obstructions, selectedTool,
           vehicleIdCounter, obstructionIdCounter, completedVehicles, isRunning,
           dtMs, loopObstructions, demoTimer, isDemoMode, currentScenario,
           spawnTimers, demoTimerStale, firedTimer, loops, pendingEffect,
           frameCalls, op, lastDt, elapsed, lastPlace,
           blockedRun, frames, lastSpawnTime, isRoundabout, simulationStartTime >>

\* The demo state of EnhancedSimulationContext.tsx and its timers.
demoVars == << demoTimer, isDemoMode, currentScenario, spawnTimers,
               demoTimerStale, firedTimer >>

\* The animation loops of part_002.
loopVars == << loops, pendingEffect, frameCalls >>

-----------------------------------------------------------------------------
(* Small helpers *)

Abs(n) == IF n < 0 THEN -n ELSE n

Min(a, b) == IF a < b THEN a ELSE b

Max(a, b) == IF a > b THEN a ELSE b

Sign(n) == IF n > 0 THEN 1 ELSE IF n < 0 THEN -1 ELSE 0

\* Division of a signed numerator, rounding toward zero as a double product
\* followed by truncation would; b > 0.
TDiv(a, b) == IF a >= 0 THEN a \div b ELSE -((-a) \div b)

-----------------------------------------------------------------------------
(* Signal controller *)

\* part_003 / part_006: initial trafficSignal and resetToBaseline
nsGreenDefault == 30000
nsYellowDefault == 5000
ewGreenDefault == 30000
ewYellowDefault == 5000
allRedDefault == 2000

DefaultCycle ==
    [ nsGreen |-> nsGreenDefault, nsYellow |-> nsYellowDefault,
      ewGreen |-> ewGreenDefault, ewYellow |-> ewYellowDefault,
      allRed |-> allRedDefault ]

InitialSignal003 ==
    [ northSouth |-> "green", eastWest |-> "red", timeRemaining |-> 30000,
      cycle |-> DefaultCycle, isOptimized |-> FALSE ]

\* part_000: initial trafficSignal and resetToBaseline
InitialSignal000 ==
    [ northSouth |-> "green", eastWest |-> "red", timeRemaining |-> 30000 ]

\* EnhancedSimulationContext.tsx: initial trafficSignal and resetSimulation
InitialSignalESC ==
    [ northSouth |-> "green", eastWest |-> "red", timeRemaining |-> 30000,
      cycle |-> 0 ]

InitialSignal(v) ==
    CASE v = "p003" -> InitialSignal003
      [] v = "p006" -> InitialSignal003
      [] v = "p000" -> InitialSignal000
      [] OTHER      -> InitialSignalESC

\* A plausible slip: the branches reset the countdown to the literal default
\* durations instead of the durations of the table.
updateTrafficSignals003_LiteralDurations(sig, dt) ==
    LET t == sig.timeRemaining - dt IN
    IF t <= 0
    THEN IF sig.northSouth = "green"
         THEN [sig EXCEPT !.northSouth = "yellow", !.eastWest = "red",
                          !.timeRemaining = 5000]
         ELSE IF sig.northSouth = "yellow"
         THEN [sig EXCEPT !.northSouth = "red", !.eastWest = "red",
                          !.timeRemaining = 2000]
         ELSE IF sig.eastWest = "red" /\ sig.northSouth = "red"
         THEN [sig EXCEPT !.northSouth = "red", !.eastWest = "green",
                          !.timeRemaining = 30000]
         ELSE IF sig.eastWest = "green"
         THEN [sig EXCEPT !.northSouth = "red", !.eastWest = "yellow",
                          !.timeRemaining = 5000]
         ELSE IF sig.eastWest = "yellow"
         THEN [sig EXCEPT !.northSouth = "green", !.eastWest = "red",
                          !.timeRemaining = 30000]
         ELSE [sig EXCEPT !.timeRemaining = t]
    ELSE [sig EXCEPT !.timeRemaining = t]

\* part_003 updateTrafficSignals (part_006 updateTrafficSignal is the same text):
\* the updater handed to setTrafficSignal.
updateTrafficSignals003(sig, dt) ==
    LET t == sig.timeRemaining - dt IN
    IF t <= 0
    THEN IF sig.northSouth = "green"
         THEN [sig EXCEPT !.northSouth = "yellow", !.eastWest = "red",
                          !.timeRemaining = sig.cycle.nsYellow]
         ELSE IF sig.northSouth = "yellow"
         THEN [sig EXCEPT !.northSouth = "red", !.eastWest = "red",
                          !.timeRemaining = sig.cycle.allRed]
         ELSE IF sig.eastWest = "red" /\ sig.northSouth = "red"
         THEN [sig EXCEPT !.northSouth = "red", !.eastWest = "green",
                          !.timeRemaining = sig.cycle.ewGreen]
         ELSE IF sig.eastWest = "green"
         THEN [sig EXCEPT !.northSouth = "red", !.eastWest = "yellow",
                          !.timeRemaining = sig.cycle.ewYellow]
         ELSE IF sig.eastWest = "yellow"
         THEN [sig EXCEPT !.northSouth = "green", !.eastWest = "red",
                          !.timeRemaining = sig.cycle.nsGreen]
         ELSE [sig EXCEPT !.timeRemaining = t]
    ELSE [sig EXCEPT !.timeRemaining = t]

\* A plausible slip: the yellow branch hands over to east-west directly,
\* without the all-red clearance.
updateTrafficSignals000_SkipAllRed(sig, dt) ==
    LET t == sig.timeRemaining - dt IN
    IF t <= 0
    THEN IF sig.northSouth = "green" /\ sig.eastWest = "red"
         THEN [sig EXCEPT !.northSouth = "yellow", !.timeRemaining = 5000]
         ELSE IF sig.northSouth = "yellow" /\ sig.eastWest = "red"
         THEN [sig EXCEPT !.northSouth = "red", !.eastWest = "green",
                          !.timeRemaining = 30000]
         ELSE IF sig.northSouth = "red" /\ sig.eastWest = "green"
         THEN [sig EXCEPT !.northSouth = "red", !.eastWest = "yellow",
                          !.timeRemaining = 5000]
         ELSE IF sig.northSouth = "red" /\ sig.eastWest = "yellow"
         THEN [sig EXCEPT !.northSouth = "green", !.eastWest = "red",
                          !.timeRemaining = 30000]
         ELSE [sig EXCEPT !.timeRemaining = t]
    ELSE [sig EXCEPT !.timeRemaining = t]

\* part_000 updateTrafficSignals: durations are literals in the branches.
updateTrafficSignals000(sig, dt) ==
    LET t == sig.timeRemaining - dt IN
    IF t <= 0
    THEN IF sig.northSouth = "green" /\ sig.eastWest = "red"
         THEN [sig EXCEPT !.northSouth = "yellow", !.timeRemaining = 5000]
         ELSE IF sig.northSouth = "yellow" /\ sig.eastWest = "red"
         THEN [sig EXCEPT !.northSouth = "red", !.eastWest = "red",
                          !.timeRemaining = 2000]
         ELSE IF sig.northSouth = "red" /\ sig.eastWest = "red"
         THEN [sig EXCEPT !.northSouth = "red", !.eastWest = "green",
                          !.timeRemaining = 30000]
         ELSE IF sig.northSouth = "red" /\ sig.eastWest = "green"
         THEN [sig EXCEPT !.northSouth = "red", !.eastWest = "yellow",
                          !.timeRemaining = 5000]
         ELSE IF sig.northSouth = "red" /\ sig.eastWest = "yellow"
         THEN [sig EXCEPT !.northSouth = "green", !.eastWest = "red",
                          !.timeRemaining = 30000]
         ELSE [sig EXCEPT !.timeRemaining = t]
    ELSE [sig EXCEPT !.timeRemaining = t]

\* A plausible slip: east-west turns green one cycle step early.
updateTrafficSignalESC_EarlyGreen(sig, dt) ==
    IF sig.timeRemaining <= 0
    THEN LET newCycle == (sig.cycle + 1) % 4 IN
         [ northSouth |-> IF newCycle < 2 THEN "green" ELSE "red",
           eastWest |-> IF newCycle >= 1 THEN "green" ELSE "red",
           timeRemaining |-> 30000,
           cycle |-> newCycle ]
    ELSE [sig EXCEPT !.timeRemaining = sig.timeRemaining - dt]

\* EnhancedSimulationContext.tsx updateSimulation: the updater handed to
\* setTrafficSignal.  It tests the countdown BEFORE subtracting deltaTime.
updateTrafficSignalESC(sig, dt) ==
    IF sig.timeRemaining <= 0
    THEN LET newCycle == (sig.cycle + 1) % 4 IN
         [ northSouth |-> IF newCycle < 2 THEN "green" ELSE "red",
           eastWest |-> IF newCycle >= 2 THEN "green" ELSE "red",
           timeRemaining |-> 30000,
           cycle |-> newCycle ]
    ELSE [sig EXCEPT !.timeRemaining = sig.timeRemaining - dt]

updateSignal(v, sig, dt) ==
    CASE v = "p003" -> updateTrafficSignals003(sig, dt)
      [] v = "p006" -> updateTrafficSignals003(sig, dt)
      [] v = "p000" -> updateTrafficSignals000(sig, dt)
      [] OTHER      -> updateTrafficSignalESC(sig, dt)

\* A plausible slip: the threshold is met by an average of exactly 5.
optimizeSignals003_Inclusive(sig, q) ==
    LET sum == q.north + q.south + q.east + q.west IN
    IF sum >= 5 * 4
    THEN [sig EXCEPT !.cycle.nsGreen = Min(60000, sig.cycle.nsGreen + 5000),
                     !.cycle.ewGreen = Min(60000, sig.cycle.ewGreen + 5000),
                     !.isOptimized = TRUE]
    ELSE sig

\* part_003 optimizeSignals: reads the latest metrics, changes the duration table.
optimizeSignals003(sig, q) ==
    LET sum == q.north + q.south + q.east + q.west IN
    IF sum > 5 * 4          \* avgQueueLength = sum / 4 > 5
    THEN [sig EXCEPT !.cycle.nsGreen = Min(60000, sig.cycle.nsGreen + 5000),
                     !.cycle.ewGreen = Min(60000, sig.cycle.ewGreen + 5000),
                     !.isOptimized = TRUE]
    ELSE sig


-----------------------------------------------------------------------------
(* State shared by every specification *)

Variants == {"p003", "p006", "p000", "esc"}

NoQueues == [north |-> 0, south |-> 0, east |-> 0, west |-> 0]

NoPlace == [x |-> 0, z |-> 0]

\* part_003 / part_006 / part_000: the initial metrics.  part_000 has no
\* throughput and no queueLengths; they are carried at their zero values.
ZeroMetrics ==
    [ totalVehicles |-> 0, activeVehicles |-> 0, averageWaitTime |-> 0,
      averageSpeed |-> 0, co2Emissions |-> 0, congestionLevel |-> 0,
      throughput |-> 0, queueLengths |-> NoQueues ]

\* EnhancedSimulationContext.tsx: the initial metrics, which resetSimulation
\* sets again (averageSpeed 15, averageWaitTime 8, congestionLevel 20,
\* co2Emissions 0.5, throughput 100).
InitialMetricsESC ==
    [ totalVehicles |-> 0, activeVehicles |-> 0, averageWaitTime |-> 8000,
      averageSpeed |-> 150000, co2Emissions |-> 500000, congestionLevel |-> 2000,
      throughput |-> 10000, queueLengths |-> NoQueues ]

InitialMetrics(v) == IF v \in {"esc", "p002"} THEN InitialMetricsESC ELSE ZeroMetrics

\* No spawn timer has fired yet.
NoTimer == [by |-> "none", i |-> 0, stale |-> FALSE]

\* resetSimulation: for (let i = 0; i < 3; i++) setTimeout(spawnVehicle, i * 1000)
resetSpawns == 3

\* startDemo, "rush_hour": for (let i = 0; i < 10; i++) setTimeout(spawnVehicle, i * 500)
rushHourSpawns == 10

\* The timers of one for-loop fire in the order of their delays, so a batch
\* is its scheduler and the index of its next timer.
SpawnBatch(by) == [by |-> by, i |-> 0, stale |-> FALSE]

BatchSize(by) == IF by = "startDemo" THEN rushHourSpawns ELSE resetSpawns

\* The timers that were pending when resetSimulation() or stopDemo() ran.
MarkStale(timers) == { [t EXCEPT !.stale = TRUE] : t \in timers }

\* React applies the setState calls of one handler in the order of the calls.
RECURSIVE ApplyUpdates(_, _)
ApplyUpdates(state, updates) ==
    IF updates = << >> THEN state
    ELSE ApplyUpdates([state EXCEPT ![Head(updates).set] = Head(updates).to],
                      Tail(updates))

\* resetSimulation: setIsDemoMode(false); setCurrentScenario(null)
resetSimulationUpdates ==
    << [set |-> "isDemoMode", to |-> FALSE],
       [set |-> "currentScenario", to |-> "none"] >>

\* startDemo: setIsDemoMode(true); setCurrentScenario(scenario); resetSimulation()
startDemoUpdates(scenario) ==
    << [set |-> "isDemoMode", to |-> TRUE],
       [set |-> "currentScenario", to |-> scenario] >> \o resetSimulationUpdates

\* stopDemo: setIsDemoMode(false); setCurrentScenario(null)
stopDemoUpdates ==
    << [set |-> "isDemoMode", to |-> FALSE],
       [set |-> "currentScenario", to |-> "none"] >>

DemoState == [isDemoMode |-> isDemoMode, currentScenario |-> currentScenario]

\* The reading of the frame clock (performance.now() / Date.now(), ms) when the
\* loop starts: the page has been open for two seconds.  esc stores it in
\* lastSpawnTime on mount; part_000 starts lastSpawnTime at 0.
ClockStart == 2000

\* The state after the provider is constructed (the useState / useRef initial
\* values), for build v driven with deltaTime d.
InitOf(v, d) ==
    /\ variant = v
    /\ trafficSignal = InitialSignal(v)
    /\ metrics = InitialMetrics(v)
    /\ vehicles = << >>
    /\ obstructions = << >>
    /\ selectedTool = "none"
    /\ vehicleIdCounter = 0
    /\ obstructionIdCounter = 0
    /\ completedVehicles = 0
    /\ isRunning = (v \in {"esc", "p002"})   \* esc, part_002: useState(true);
                                              \* the others: useState(false)
    /\ dtMs = d
    /\ loopObstructions = << >>
    /\ demoTimer = "none"
    /\ isDemoMode = FALSE
    /\ currentScenario = "none"
    /\ spawnTimers = {}
    /\ demoTimerStale = FALSE
    /\ firedTimer = NoTimer
    /\ loops = << >>
    /\ pendingEffect = (v = "p002")   \* the effect of the first render
    /\ frameCalls = 0
    /\ op = "init"
    /\ lastDt = 0
    /\ elapsed = 0
    /\ lastPlace = NoPlace
    /\ blockedRun = 0
    /\ frames = 0
    /\ lastSpawnTime = IF v = "esc" THEN ClockStart ELSE 0
    /\ isRoundabout = FALSE
    /\ simulationStartTime = 0

-----------------------------------------------------------------------------
(* The signal specification: the signal state under ticks and commands.     *)
(* The vehicle and obstruction sets stay as constructed; the queue lengths  *)
(* the metrics hold are an input.                                           *)

\* The history variable `elapsed` is exact up to MaxElapsed and then stays at
\* MaxElapsed + 1 ("more than MaxElapsed").
MaxElapsed == 80000

\* deltaTime values of a signal tick: zero, small, not dividing the phase
\* durations, and larger than several phases together.
SignalDts == {0, 4000, 10000, 72000}

\* Queue lengths a metrics snapshot may hold (at most 35 vehicles are live).
QueueSamples == { NoQueues,
                  [north |-> 5, south |-> 5, east |-> 5, west |-> 5],
                  [north |-> 20, south |-> 0, east |-> 1, west |-> 0] }

SignalFrame ==
    << vehicles, obstructions, selectedTool, vehicleIdCounter,
       obstructionIdCounter, completedVehicles, dtMs, loopObstructions,
       lastPlace, blockedRun, frames, lastSpawnTime, isRoundabout,
       simulationStartTime >>

\* One call of updateTrafficSignals(deltaTime) / the setTrafficSignal step of
\* updateSimulation.
SignalTick(dt) ==
    /\ trafficSignal' = updateSignal(variant, trafficSignal, dt)
    /\ op' = "signalTick"
    /\ lastDt' = dt
    /\ elapsed' = Min(elapsed + dt, MaxElapsed + 1)
    /\ UNCHANGED << variant, metrics, isRunning, demoVars, loopVars >>
    /\ UNCHANGED SignalFrame

\* updateMetrics as far as the signal controller reads it back: queueLengths.
MetricsSnapshot(q) ==
    /\ variant \in {"p003", "p006"}
    /\ metrics' = [metrics EXCEPT !.queueLengths = q]
    /\ op' = "updateMetrics"
    /\ UNCHANGED << variant, trafficSignal, isRunning, demoVars, loopVars, lastDt, elapsed >>
    /\ UNCHANGED SignalFrame

\* part_003 / part_006 optimizeSignals
OptimizeSignals ==
    /\ variant \in {"p003", "p006"}
    /\ trafficSignal' = optimizeSignals003(trafficSignal, metrics.queueLengths)
    /\ op' = "optimizeSignals"
    /\ UNCHANGED << variant, metrics, isRunning, demoVars, loopVars, lastDt, elapsed >>
    /\ UNCHANGED SignalFrame

\* A plausible slip: the reset restores the phase and the countdown and keeps
\* the duration table the optimizer left.
ResetToBaseline_KeepTable ==
    /\ variant \in {"p003", "p006", "p000"}
    /\ vehicles' = << >>
    /\ obstructions' = << >>
    /\ trafficSignal' = IF variant = "p000" THEN InitialSignal000
                        ELSE [trafficSignal EXCEPT !.northSouth = "green",
                                                   !.eastWest = "red",
                                                   !.timeRemaining = 30000]
    /\ vehicleIdCounter' = 0
    /\ obstructionIdCounter' = 0
    /\ completedVehicles' = IF variant = "p000" THEN completedVehicles ELSE 0
    /\ isRunning' = FALSE
    /\ op' = "reset"
    /\ elapsed' = 0
    /\ blockedRun' = 0
    /\ isRoundabout' = FALSE
    /\ UNCHANGED << variant, metrics, selectedTool, dtMs, loopObstructions,
                    demoVars, loopVars, lastDt, lastPlace, frames, lastSpawnTime,
                    simulationStartTime >>

\* part_003 / part_006 / part_000 resetToBaseline
ResetToBaseline ==
    /\ variant \in {"p003", "p006", "p000"}
    /\ vehicles' = << >>
    /\ obstructions' = << >>
    /\ trafficSignal' = InitialSignal(variant)
    /\ vehicleIdCounter' = 0
    /\ obstructionIdCounter' = 0
    /\ completedVehicles' = IF variant = "p000" THEN completedVehicles ELSE 0
    /\ isRunning' = FALSE
    /\ op' = "reset"
    /\ elapsed' = 0
    /\ blockedRun' = 0
    /\ isRoundabout' = FALSE
    /\ UNCHANGED << variant, metrics, selectedTool, dtMs, loopObstructions,
                    demoVars, loopVars, lastDt, lastPlace, frames, lastSpawnTime,
                    simulationStartTime >>

\* EnhancedSimulationContext.tsx resetSimulation: the state it sets and the
\* three spawn timers it schedules; no pending timer is cleared.
ResetSimulation ==
    /\ variant = "esc"
    /\ vehicles' = << >>
    /\ obstructions' = << >>
    /\ trafficSignal' = InitialSignalESC
    /\ metrics' = InitialMetricsESC
    /\ op' = "reset"
    /\ elapsed' = 0
    /\ blockedRun' = 0
    /\ isDemoMode' = ApplyUpdates(DemoState, resetSimulationUpdates).isDemoMode
    /\ currentScenario' =
          ApplyUpdates(DemoState, resetSimulationUpdates).currentScenario
    /\ spawnTimers' = MarkStale(spawnTimers) \cup {SpawnBatch("resetSimulation")}
    /\ demoTimerStale' = (demoTimer # "none")
    /\ UNCHANGED << variant, selectedTool, vehicleIdCounter,
                    obstructionIdCounter, completedVehicles, isRunning, dtMs,
                    loopObstructions, demoTimer, firedTimer, loopVars, lastDt, lastPlace,
                    frames, lastSpawnTime, isRoundabout, simulationStartTime >>

DemoScenarios == {"rush_hour", "emergency_response", "smart_optimization"}

\* EnhancedSimulationContext.tsx startDemo: the demo flags, resetSimulation(),
\* then a 100 ms timer that runs the scenario.
StartDemo(scenario) ==
    /\ variant = "esc"
    /\ vehicles' = << >>
    /\ obstructions' = << >>
    /\ trafficSignal' = InitialSignalESC
    /\ metrics' = InitialMetricsESC
    /\ demoTimer' = scenario
    /\ isDemoMode' = ApplyUpdates(DemoState, startDemoUpdates(scenario)).isDemoMode
    /\ currentScenario' =
          ApplyUpdates(DemoState, startDemoUpdates(scenario)).currentScenario
    /\ spawnTimers' = MarkStale(spawnTimers) \cup {SpawnBatch("resetSimulation")}
    /\ demoTimerStale' = FALSE
    /\ op' = "startDemo"
    /\ elapsed' = 0
    /\ blockedRun' = 0
    /\ UNCHANGED << variant, selectedTool, vehicleIdCounter,
                    obstructionIdCounter, completedVehicles, isRunning, dtMs,
                    loopObstructions, firedTimer, loopVars, lastDt, lastPlace, frames,
                    lastSpawnTime, isRoundabout, simulationStartTime >>

\* The timer of startDemo fires: "rush_hour" schedules ten spawns,
\* "smart_optimization" sets the countdown to 15 s.
DemoTimerFires ==
    /\ variant = "esc"
    /\ demoTimer # "none"
    /\ trafficSignal' = IF demoTimer = "smart_optimization"
                        THEN [trafficSignal EXCEPT !.timeRemaining = 15000]
                        ELSE trafficSignal
    /\ demoTimer' = "none"
    /\ spawnTimers' = IF demoTimer = "rush_hour"
                       THEN spawnTimers \cup
                              {[SpawnBatch("startDemo") EXCEPT !.stale = demoTimerStale]}
                       ELSE spawnTimers
    /\ demoTimerStale' = FALSE
    /\ op' = "demoTimer"
    /\ UNCHANGED << variant, metrics, isRunning, lastDt, elapsed, isDemoMode,
                    currentScenario, firedTimer, loopVars >>
    /\ UNCHANGED SignalFrame

InitSignal == \E v \in Variants : InitOf(v, 0)

NextSignal ==
    \/ \E dt \in SignalDts : SignalTick(dt)
    \/ \E q \in QueueSamples : MetricsSnapshot(q)
    \/ OptimizeSignals
    \/ ResetToBaseline
    \/ ResetSimulation
    \/ \E s \in DemoScenarios : StartDemo(s)
    \/ DemoTimerFires

SpecSignal == InitSignal /\ [][NextSignal]_vars

-----------------------------------------------------------------------------
(* Claims about the signal controller *)

Joint == << trafficSignal.northSouth, trafficSignal.eastWest >>

S0 == << "green", "red" >>
S1 == << "yellow", "red" >>
S2 == << "red", "red" >>
S3 == << "red", "green" >>
S4 == << "red", "yellow" >>

PhaseStates == {S0, S1, S2, S3, S4}

Successor(j) ==
    CASE j = S0 -> S1
      [] j = S1 -> S2
      [] j = S2 -> S3
      [] j = S3 -> S4
      [] j = S4 -> S0
      [] OTHER  -> j

\* C1: in every build, in every state reachable by signal ticks of any
\* deltaTime, optimizeSignals, the demo adjustment and resets, north-south
\* and east-west are never both green.
C1_MutualExclusion ==
    ~(trafficSignal.northSouth = "green" /\ trafficSignal.eastWest = "green")

\* C1 witness: a tick has handed the right of way to east-west.
C1_Witness ==
    /\ op = "signalTick"
    /\ trafficSignal.eastWest = "green"
    /\ trafficSignal.northSouth = "red"
    /\ variant = "esc"

CycleSum(c) == c.nsGreen + c.nsYellow + c.allRed + c.ewGreen + c.ewYellow

\* C3 (as claimed): from S0 with the full countdown, once the deltaTime values
\* of the ticks sum to the cycle length the signal is back at S0 with
\* timeRemaining = nsGreen.
C3_CycleClosure ==
    ( /\ variant \in {"p003", "p006"}
      /\ ~trafficSignal.isOptimized
      /\ elapsed = CycleSum(trafficSignal.cycle) )
    => ( /\ Joint = S0
         /\ trafficSignal.timeRemaining = trafficSignal.cycle.nsGreen )

\* C4 (as claimed): the signal of EnhancedSimulationContext.tsx follows the
\* five-phase cycle: every tick leaves the joint state or moves it to its
\* table successor, so a green is always followed by that group's yellow.
C4_FivePhaseESC ==
    [][ (variant = "esc" /\ op' = "signalTick") =>
          (Joint' = Joint \/ Joint' = Successor(Joint)) ]_vars

-----------------------------------------------------------------------------
(* Obstruction placement *)

\* TrafficScene.tsx RoadIntersection: the two road slabs, 20 m x 1000 m each,
\* centred on the origin (coordinates in mm).
RoadFootprint(x, z) ==
    \/ (Abs(x) <= 10000 /\ Abs(z) <= 500000)
    \/ (Abs(z) <= 10000 /\ Abs(x) <= 500000)

\* A plausible slip: the lane test only looks across the road, not along it.
validLane003_NoLength(x, z) ==
    \/ Abs(x) < 4875
    \/ Abs(z) < 4875

\* part_003 / part_006 placeObstructionAtPosition: validLane
\* (laneWidth * 1.5 = 4.875 m, roadLength / 2 = 250 m).
validLane003(x, z) ==
    \/ (Abs(x) < 4875 /\ Abs(z) < 250000)
    \/ (Abs(z) < 4875 /\ Abs(x) < 250000)

\* part_000 placeObstructionAtPosition: isOnRoad
isOnRoad000(x, z) ==
    \/ (Abs(x) < 10000 /\ Abs(z) < 500000)
    \/ (Abs(z) < 10000 /\ Abs(x) < 500000)

\* part_003 / part_006 placeObstructionAtPosition: the record handed to
\* addObstruction (size.x in mm, speedReduction in 1/10000).
Obstruction003(tool, x, z) ==
    [ type |-> tool, x |-> x, z |-> z,
      sizeX |-> IF tool = "pothole" THEN 20000
                ELSE IF tool = "barricade" THEN 5000 ELSE 10000,
      lane |-> IF Abs(x) < 4875 /\ Abs(z) < 250000
               THEN (IF x < 0 THEN 0 ELSE 1)
               ELSE (IF z > 0 THEN 0 ELSE 1),
      direction |-> IF Abs(x) < 4875 /\ Abs(z) < 250000
                    THEN (IF z > 0 THEN "north" ELSE "south")
                    ELSE (IF x > 0 THEN "east" ELSE "west"),
      speedReduction |-> IF tool = "pothole" THEN 5000
                         ELSE IF tool = "vendor" THEN 3000 ELSE 0,
      blocked |-> (tool = "barricade") ]

\* part_000 placeObstructionAtPosition: the record handed to addObstruction.
Obstruction000(tool, x, z) ==
    [ type |-> tool, x |-> x, z |-> z,
      sizeX |-> IF tool = "pothole" THEN 20000
                ELSE IF tool = "barricade" THEN 2000 ELSE 3000,
      lane |-> IF Abs(x) < 10000
               THEN (IF x < 0 THEN 1 ELSE 2)
               ELSE (IF z > 0 THEN 1 ELSE 2),
      direction |-> IF Abs(x) < 10000
                    THEN (IF z > 0 THEN "north" ELSE "south")
                    ELSE (IF x > 0 THEN "east" ELSE "west"),
      speedReduction |-> IF tool = "pothole" THEN 5000
                         ELSE IF tool = "vendor" THEN 3000 ELSE 0,
      blocked |-> (tool = "barricade") ]

\* addObstruction: the id comes from obstructionIdCounter.current++ and the
\* record is appended.
addObstruction(obs, counter, o) ==
    Append(obs, [ id |-> counter ] @@ o)

Tools == {"pothole", "barricade", "vendor"}

\* Most obstructions held at once, and most ids handed out since the last reset.
MaxObstructions == 1
MaxObstructionId == 2

\* Coordinates of a click (mm): on the centre line, on the far lane of the
\* 20 m slab, and far off any road.
PlaceCoords == {-6000, 0, 1000000}

PlaceFrame ==
    << variant, trafficSignal, metrics, vehicles, vehicleIdCounter,
       completedVehicles, isRunning, dtMs, loopObstructions, demoVars, loopVars,
       lastDt, elapsed, blockedRun, frames, lastSpawnTime, isRoundabout,
       simulationStartTime >>

\* selectTool
SelectTool(tool) ==
    /\ variant \in {"p003", "p006", "p000"}
    /\ selectedTool' = tool
    /\ op' = "selectTool"
    /\ UNCHANGED << obstructions, obstructionIdCounter, lastPlace >>
    /\ UNCHANGED PlaceFrame

\* Does placeObstructionAtPosition(x, z) reach addObstruction?
PlacementAccepted(x, z) ==
    IF variant = "p000"
    THEN selectedTool # "none" /\ isOnRoad000(x, z)
    ELSE validLane003(x, z) /\ selectedTool # "none"

\* placeObstructionAtPosition(x, z) of part_003 / part_006 / part_000
PlaceObstructionAtPosition(x, z) ==
    /\ variant \in {"p003", "p006", "p000"}
    /\ PlacementAccepted(x, z) =>
          (Len(obstructions) < MaxObstructions /\ obstructionIdCounter < MaxObstructionId)
    /\ IF PlacementAccepted(x, z)
       THEN /\ obstructions' =
                 addObstruction(obstructions, obstructionIdCounter,
                                IF variant = "p000"
                                THEN Obstruction000(selectedTool, x, z)
                                ELSE Obstruction003(selectedTool, x, z))
            /\ obstructionIdCounter' = obstructionIdCounter + 1
            /\ selectedTool' = "none"
       ELSE UNCHANGED << obstructions, obstructionIdCounter, selectedTool >>
    /\ op' = "placeObstructionAtPosition"
    /\ lastPlace' = [x |-> x, z |-> z]
    /\ UNCHANGED PlaceFrame

\* removeObstruction(id)
RemoveObstruction(id) ==
    /\ obstructions' = SelectSeq(obstructions, LAMBDA o : o.id # id)
    /\ op' = "removeObstruction"
    /\ UNCHANGED << selectedTool, obstructionIdCounter, lastPlace >>
    /\ UNCHANGED PlaceFrame

\* clearAllObstructions
ClearAllObstructions ==
    /\ obstructions' = << >>
    /\ op' = "clearAllObstructions"
    /\ UNCHANGED << selectedTool, obstructionIdCounter, lastPlace >>
    /\ UNCHANGED PlaceFrame

InitPlace == \E v \in {"p003", "p006", "p000"} : InitOf(v, 0)

NextPlace ==
    \/ \E t \in Tools \cup {"none"} : SelectTool(t)
    \/ \E x \in PlaceCoords, z \in PlaceCoords : PlaceObstructionAtPosition(x, z)
    \/ \E id \in 0 .. MaxObstructionId : RemoveObstruction(id)
    \/ ClearAllObstructions
    \/ ResetToBaseline

SpecPlace == InitPlace /\ [][NextPlace]_vars

-----------------------------------------------------------------------------
(* Claims about placement *)

\* C10: placeObstructionAtPosition(x, z) with (x, z) outside the road
\* footprint, whatever tool is selected, leaves the obstruction list and the
\* obstruction id counter exactly as they were.
C10_PlacementRejection ==
    [][ ( /\ op' = "placeObstructionAtPosition"
          /\ ~RoadFootprint(lastPlace'.x, lastPlace'.z) )
        => ( /\ obstructions' = obstructions
             /\ obstructionIdCounter' = obstructionIdCounter ) ]_vars

\* C10 witness: with a tool selected and an obstruction already placed, a
\* click at (1000 m, 1000 m) has been handled.
C10_Witness ==
    /\ op = "placeObstructionAtPosition"
    /\ lastPlace = [x |-> 1000000, z |-> 1000000]
    /\ selectedTool = "pothole"
    /\ Len(obstructions) = 1

-----------------------------------------------------------------------------
(* Geometry in fixed point (mm) *)

P(x, z) == [x |-> x, z |-> z]

\* Largest r in lo .. hi with r * r <= n.
RECURSIVE ISqrtBetween(_, _, _)
ISqrtBetween(n, lo, hi) ==
    IF lo >= hi THEN lo
    ELSE LET mid == (lo + hi + 1) \div 2 IN
         IF mid * mid <= n THEN ISqrtBetween(n, mid, hi)
                           ELSE ISqrtBetween(n, lo, mid - 1)

ISqrt(n) == ISqrtBetween(n, 0, 46340)

\* Vector3.distanceTo / Math.sqrt(dx * dx + dz * dz) in the ground plane.
\* Long oblique distances are taken on a 32 mm grid to stay within 32 bits.
Hypot(dx, dz) ==
    IF dz = 0 THEN Abs(dx)
    ELSE IF dx = 0 THEN Abs(dz)
    ELSE IF Abs(dx) < 30000 /\ Abs(dz) < 30000
         THEN ISqrt(dx * dx + dz * dz)
         ELSE 32 * ISqrt((Abs(dx) \div 32) * (Abs(dx) \div 32)
                          + (Abs(dz) \div 32) * (Abs(dz) \div 32))

\* distance((dx, dy, dz)) < r, for r up to 25 m.
Within(dx, dy, dz, r) ==
    /\ Abs(dx) < r
    /\ Abs(dz) < r
    /\ dx * dx + dy * dy + dz * dz < r * r

\* One component of Vector3.normalize(), in 1/2048; the zero vector stays zero.
UnitComponent(d, len) ==
    IF len = 0 THEN 0 ELSE TDiv(d * 2048, len)

\* position + normalize(target - position) * move
MoveToward(pos, target, move) ==
    LET dx == target.x - pos.x
        dz == target.z - pos.z
        len == Hypot(dx, dz)
    IN  IF len = 0 THEN pos
        ELSE IF dz = 0 THEN P(pos.x + Sign(dx) * move, pos.z)
        ELSE IF dx = 0 THEN P(pos.x, pos.z + Sign(dz) * move)
        ELSE P(pos.x + TDiv(UnitComponent(dx, len) * move, 2048),
               pos.z + TDiv(UnitComponent(dz, len) * move, 2048))

Distance(a, b) == Hypot(a.x - b.x, a.z - b.z)

\* normalize(target - pos) * s, in the ground plane
Toward(pos, target, s) ==
    MoveToward(P(0, 0), P(target.x - pos.x, target.z - pos.z), s)

-----------------------------------------------------------------------------
(* Vehicles *)

\* PHYSICS_CONFIG of part_003 / part_006 / EnhancedSimulationContext.tsx:
\* maxSpeed in 10^-4 m/s, accel and decel in 0.1 m/s^2, length in mm.
PHYSICS_CONFIG(type) ==
    CASE type = "car"   -> [maxSpeed |-> 139000, accel |-> 25, decel |-> 45, length |-> 4000]
      [] type = "bus"   -> [maxSpeed |-> 111000, accel |-> 18, decel |-> 35, length |-> 12000]
      [] type = "truck" -> [maxSpeed |-> 100000, accel |-> 20, decel |-> 40, length |-> 8000]

\* part_000 spawnVehicle: the per-type literals.
PhysicsConfig000(type) ==
    CASE type = "car"   -> [maxSpeed |-> 150000, accel |-> 25, decel |-> 45, length |-> 4000]
      [] type = "bus"   -> [maxSpeed |-> 120000, accel |-> 18, decel |-> 35, length |-> 12000]
      [] type = "truck" -> [maxSpeed |-> 100000, accel |-> 20, decel |-> 40, length |-> 8000]

VehicleTypes == {"car", "bus", "truck"}

\* part_003 / part_006 generateVehiclePath, regular intersection.
generateVehiclePath003(direction, targetDirection) ==
    CASE direction = "north" /\ targetDirection = "straight" ->
           << P(-3250, 250000), P(-3250, 15000), P(-3250, -15000),
              P(-3250, -250000) >>
      [] direction = "north" /\ targetDirection = "right" ->
           << P(-3250, 250000), P(-3250, 15000), P(-3250, 0), P(-8250, 0),
              P(-20000, 8250), P(-15000, 3250), P(-250000, 3250) >>
      [] direction = "north" /\ targetDirection = "left" ->
           << P(-3250, 250000), P(-3250, 15000), P(-3250, 0), P(1750, 0),
              P(20000, -8250), P(15000, -3250), P(250000, -3250) >>
      [] direction = "south" /\ targetDirection = "straight" ->
           << P(3250, -250000), P(3250, -15000), P(3250, 15000),
              P(3250, 250000) >>
      [] direction = "south" /\ targetDirection = "right" ->
           << P(3250, -250000), P(3250, -15000), P(3250, 0), P(8250, 0),
              P(20000, -8250), P(15000, -3250), P(250000, -3250) >>
      [] direction = "south" /\ targetDirection = "left" ->
           << P(3250, -250000), P(3250, -15000), P(3250, 0), P(-1750, 0),
              P(-20000, 8250), P(-15000, 3250), P(-250000, 3250) >>
      [] direction = "east" /\ targetDirection = "straight" ->
           << P(250000, 3250), P(15000, 3250), P(-15000, 3250),
              P(-250000, 3250) >>
      [] direction = "east" /\ targetDirection = "right" ->
           << P(250000, 3250), P(15000, 3250), P(0, 3250), P(0, 8250),
              P(-8250, 20000), P(-3250, 15000), P(-3250, 250000) >>
      [] direction = "east" /\ targetDirection = "left" ->
           << P(250000, 3250), P(15000, 3250), P(0, 3250), P(0, -1750),
              P(8250, -20000), P(3250, -15000), P(3250, -250000) >>
      [] direction = "west" /\ targetDirection = "straight" ->
           << P(-250000, -3250), P(-15000, -3250), P(15000, -3250),
              P(250000, -3250) >>
      [] direction = "west" /\ targetDirection = "right" ->
           << P(-250000, -3250), P(-15000, -3250), P(0, -3250), P(0, -8250),
              P(8250, -20000), P(3250, -15000), P(3250, -250000) >>
      [] direction = "west" /\ targetDirection = "left" ->
           << P(-250000, -3250), P(-15000, -3250), P(0, -3250), P(0, 1750),
              P(-8250, 20000), P(-3250, 15000), P(-3250, 250000) >>
      [] OTHER -> << >>

\* part_000 generateVehiclePath
generateVehiclePath000(direction, targetDirection) ==
    CASE direction = "north" /\ targetDirection = "straight" ->
           << P(-3250, 250000), P(-3250, 15000), P(-3250, -15000),
              P(-3250, -250000) >>
      [] direction = "north" /\ targetDirection = "right" ->
           << P(-3250, 250000), P(-3250, 15000), P(-3250, 0), P(-13250, 0),
              P(-15000, 3250), P(-250000, 3250) >>
      [] direction = "north" /\ targetDirection = "left" ->
           << P(-3250, 250000), P(-3250, 15000), P(-3250, 0), P(6750, 0),
              P(15000, -3250), P(250000, -3250) >>
      [] direction = "south" /\ targetDirection = "straight" ->
           << P(3250, -250000), P(3250, -15000), P(3250, 15000),
              P(3250, 250000) >>
      [] direction = "south" /\ targetDirection = "right" ->
           << P(3250, -250000), P(3250, -15000), P(3250, 0), P(13250, 0),
              P(15000, -3250), P(250000, -3250) >>
      [] direction = "south" /\ targetDirection = "left" ->
           << P(3250, -250000), P(3250, -15000), P(3250, 0), P(-6750, 0),
              P(-15000, 3250), P(-250000, 3250) >>
      [] direction = "east" /\ targetDirection = "straight" ->
           << P(250000, 3250), P(15000, 3250), P(-15000, 3250),
              P(-250000, 3250) >>
      [] direction = "east" /\ targetDirection = "right" ->
           << P(250000, 3250), P(15000, 3250), P(0, 3250), P(0, 13250),
              P(-3250, 15000), P(-3250, 250000) >>
      [] direction = "east" /\ targetDirection = "left" ->
           << P(250000, 3250), P(15000, 3250), P(0, 3250), P(0, -6750),
              P(3250, -15000), P(3250, -250000) >>
      [] direction = "west" /\ targetDirection = "straight" ->
           << P(-250000, -3250), P(-15000, -3250), P(15000, -3250),
              P(250000, -3250) >>
      [] direction = "west" /\ targetDirection = "right" ->
           << P(-250000, -3250), P(-15000, -3250), P(0, -3250), P(0, -13250),
              P(3250, -15000), P(3250, -250000) >>
      [] direction = "west" /\ targetDirection = "left" ->
           << P(-250000, -3250), P(-15000, -3250), P(0, -3250), P(0, 6750),
              P(-3250, 15000), P(-3250, 250000) >>
      [] OTHER -> << >>

\* EnhancedSimulationContext.tsx generateVehiclePath
generateVehiclePathESC(direction, targetDirection) ==
    CASE direction = "north" /\ targetDirection = "straight" ->
           << P(-3250, 250000), P(-3250, 15000), P(-3250, -15000),
              P(-3250, -250000) >>
      [] direction = "north" /\ targetDirection = "right" ->
           << P(-3250, 250000), P(-3250, 15000), P(-3250, 0),
              P(-15000, 3250), P(-250000, 3250) >>
      [] direction = "north" /\ targetDirection = "left" ->
           << P(-3250, 250000), P(-3250, 15000), P(-3250, 0),
              P(15000, -3250), P(250000, -3250) >>
      [] direction = "south" /\ targetDirection = "straight" ->
           << P(3250, -250000), P(3250, -15000), P(3250, 15000),
              P(3250, 250000) >>
      [] direction = "south" /\ targetDirection = "right" ->
           << P(3250, -250000), P(3250, -15000), P(3250, 0), P(15000, -3250),
              P(250000, -3250) >>
      [] direction = "south" /\ targetDirection = "left" ->
           << P(3250, -250000), P(3250, -15000), P(3250, 0), P(-15000, 3250),
              P(-250000, 3250) >>
      [] direction = "east" /\ targetDirection = "straight" ->
           << P(250000, 3250), P(15000, 3250), P(-15000, 3250),
              P(-250000, 3250) >>
      [] direction = "east" /\ targetDirection = "right" ->
           << P(250000, 3250), P(15000, 3250), P(0, 3250), P(-3250, 15000),
              P(-3250, 250000) >>
      [] direction = "east" /\ targetDirection = "left" ->
           << P(250000, 3250), P(15000, 3250), P(0, 3250), P(3250, -15000),
              P(3250, -250000) >>
      [] direction = "west" /\ targetDirection = "straight" ->
           << P(-250000, -3250), P(-15000, -3250), P(15000, -3250),
              P(250000, -3250) >>
      [] direction = "west" /\ targetDirection = "right" ->
           << P(-250000, -3250), P(-15000, -3250), P(0, -3250),
              P(3250, -15000), P(3250, -250000) >>
      [] direction = "west" /\ targetDirection = "left" ->
           << P(-250000, -3250), P(-15000, -3250), P(0, -3250),
              P(-3250, 15000), P(-3250, 250000) >>
      [] OTHER -> << >>

generateVehiclePath(v, direction, targetDirection) ==
    CASE v = "p000" -> generateVehiclePath000(direction, targetDirection)
      [] v = "esc"  -> generateVehiclePathESC(direction, targetDirection)
      [] OTHER      -> generateVehiclePath003(direction, targetDirection)

\* spawnVehicle: the record appended to the vehicle list.  part_000 has no
\* targetSpeed, no safetyDistance and no velocity; they are carried and never
\* read there.
newVehicle(v, id, type, direction, targetDirection) ==
    LET config == IF v = "p000" THEN PhysicsConfig000(type) ELSE PHYSICS_CONFIG(type)
        path == generateVehiclePath(v, direction, targetDirection)
    IN  [ id |-> id, type |-> type,
          direction |-> direction, targetDirection |-> targetDirection,
          path |-> path, pathIndex |-> 0,
          position |-> path[1],
          velocity |-> P(0, 0),
          speed |-> 0,
          targetSpeed |-> config.maxSpeed,
          maxSpeed |-> config.maxSpeed,
          acceleration |-> config.accel,
          deceleration |-> config.decel,
          isWaiting |-> FALSE, waitTime |-> 0, co2Emitted |-> 0,
          safetyDistance |-> Max(2000, (config.length * 8) \div 10) ]

\* path[pathIndex] of the source (0-based) is path[pathIndex + 1] here.
Waypoint(vehicle, index) == vehicle.path[index + 1]

LastIndex(vehicle) == Len(vehicle.path) - 1

-----------------------------------------------------------------------------
(* The per-vehicle update of each build *)

\* A plausible slip: the scan stops at the first obstruction that contains the
\* vehicle, as obstructions.find(...) would.
obstructionScan003_FirstHit(pos, obs, i, mult) ==
    LET hits == { k \in i .. Len(obs) :
                    Within(pos.x - obs[k].x, 0, pos.z - obs[k].z, obs[k].sizeX) }
        first == CHOOSE k \in hits : \A j \in hits : k <= j
    IN  IF hits = {} THEN [isBlocked |-> FALSE, speedMultiplier |-> mult]
        ELSE IF obs[first].blocked
             THEN [isBlocked |-> TRUE, speedMultiplier |-> mult]
             ELSE [isBlocked |-> FALSE,
                   speedMultiplier |->
                       (mult * (10000 - obs[first].speedReduction)) \div 10000]

\* part_003 updateVehiclePhysics: the obstruction loop, which stops at the
\* first blocking obstruction in range.
RECURSIVE obstructionScan003(_, _, _, _)
obstructionScan003(pos, obs, i, mult) ==
    IF i > Len(obs)
    THEN [isBlocked |-> FALSE, speedMultiplier |-> mult]
    ELSE IF Within(pos.x - obs[i].x, 0, pos.z - obs[i].z, obs[i].sizeX)
         THEN IF obs[i].blocked
              THEN [isBlocked |-> TRUE, speedMultiplier |-> mult]
              ELSE obstructionScan003(pos, obs, i + 1,
                       (mult * (10000 - obs[i].speedReduction)) \div 10000)
         ELSE obstructionScan003(pos, obs, i + 1, mult)

\* part_006 updateVehiclePhysics / esc updateVehicle: obstructions.forEach
RECURSIVE obstructionScan006(_, _, _, _, _)
obstructionScan006(pos, obs, i, blocked, mult) ==
    IF i > Len(obs)
    THEN [isBlocked |-> blocked, speedMultiplier |-> mult]
    ELSE IF Within(pos.x - obs[i].x, 0, pos.z - obs[i].z, obs[i].sizeX)
         THEN IF obs[i].blocked
              THEN obstructionScan006(pos, obs, i + 1, TRUE, mult)
              ELSE obstructionScan006(pos, obs, i + 1, blocked,
                       (mult * (10000 - obs[i].speedReduction)) \div 10000)
         ELSE obstructionScan006(pos, obs, i + 1, blocked, mult)

\* part_003 updateVehiclePhysics: targetSpeed = isBlocked ? 0 : maxSpeed *
\* speedMultiplier, the desired speed before smoothing
desiredSpeed003(vehicle, obs) ==
    LET scan == obstructionScan003(vehicle.position, obs, 1, 10000)
    IN  IF scan.isBlocked THEN 0
        ELSE (vehicle.maxSpeed * scan.speedMultiplier) \div 10000

\* part_006 updateVehiclePhysics: desiredSpeed
desiredSpeed006(vehicle, obs) ==
    LET scan == obstructionScan006(vehicle.position, obs, 1, FALSE, 10000)
    IN  IF scan.isBlocked THEN 0
        ELSE (vehicle.maxSpeed * scan.speedMultiplier) \div 10000

\* A plausible slip: the floor is kept and the ceiling is lost.
ClampSpeed_NoCeiling(s, maxSpeed) == Max(0, s)

\* Math.max(0, Math.min(s, maxSpeed))
ClampSpeed(s, maxSpeed) == Max(0, Min(s, maxSpeed))

\* A plausible slip: the arrival radius of a waypoint is 0.02 m, less than the
\* distance a vehicle covers in one frame.
updateVehiclePhysics003_TightArrival(vehicle, dt, obs) ==
    LET scan == obstructionScan003(vehicle.position, obs, 1, 10000)
        desired == IF scan.isBlocked THEN 0
                   ELSE (vehicle.maxSpeed * scan.speedMultiplier) \div 10000
        targetSpeed == (desired + 9 * vehicle.targetSpeed) \div 10
        speedDiff == targetSpeed - vehicle.speed
        speed == IF Abs(speedDiff) > 200
                 THEN ClampSpeed(vehicle.speed + Sign(speedDiff) * dt *
                                   (IF speedDiff > 0 THEN vehicle.acceleration
                                                     ELSE vehicle.deceleration),
                                 vehicle.maxSpeed)
                 ELSE vehicle.speed
        moving == vehicle.pathIndex < LastIndex(vehicle) /\ speed > 200
        target == Waypoint(vehicle, vehicle.pathIndex + 1)
        dist == Distance(vehicle.position, target)
    IN  [ vehicle EXCEPT
            !.targetSpeed = targetSpeed,
            !.speed = speed,
            !.position = IF moving /\ dist > 20
                         THEN MoveToward(vehicle.position, target, (speed * dt) \div 10000)
                         ELSE vehicle.position,
            !.velocity = IF moving /\ dist > 20
                         THEN Toward(vehicle.position, target, speed)
                         ELSE vehicle.velocity,
            !.pathIndex = IF moving /\ dist <= 20
                          THEN vehicle.pathIndex + 1 ELSE vehicle.pathIndex ]

\* A plausible slip: the waiting flag follows the speed alone, without the
\* one second of accrued wait.
updateVehiclePhysics003_NoHysteresis(vehicle, dt, obs) ==
    LET desired == desiredSpeed003(vehicle, obs)
        targetSpeed == (desired + 9 * vehicle.targetSpeed) \div 10
        speedDiff == targetSpeed - vehicle.speed
        speed == IF Abs(speedDiff) > 200
                 THEN ClampSpeed(vehicle.speed + Sign(speedDiff) * dt *
                                   (IF speedDiff > 0 THEN vehicle.acceleration
                                                     ELSE vehicle.deceleration),
                                 vehicle.maxSpeed)
                 ELSE vehicle.speed
        moving == vehicle.pathIndex < LastIndex(vehicle) /\ speed > 200
        target == Waypoint(vehicle, vehicle.pathIndex + 1)
        dist == Distance(vehicle.position, target)
        waitTime == IF speed < 1000 THEN vehicle.waitTime + dt
                    ELSE Max(0, vehicle.waitTime - dt \div 2)
    IN  [ vehicle EXCEPT
            !.targetSpeed = targetSpeed,
            !.speed = speed,
            !.position = IF moving /\ dist > 500
                         THEN MoveToward(vehicle.position, target, (speed * dt) \div 10000)
                         ELSE vehicle.position,
            !.velocity = IF moving /\ dist > 500
                         THEN Toward(vehicle.position, target, speed)
                         ELSE vehicle.velocity,
            !.pathIndex = IF moving /\ dist <= 500
                          THEN vehicle.pathIndex + 1 ELSE vehicle.pathIndex,
            !.waitTime = waitTime,
            !.isWaiting = speed < 1000,
            !.co2Emitted = IF speed < 1000
                           THEN vehicle.co2Emitted + 150 * dt
                           ELSE vehicle.co2Emitted + (speed * dt) \div 200 ]

\* part_003 updateVehiclePhysics(vehicle, deltaTime) with the obstruction list
\* of its closure.  Rotation is a derived display value and is not carried.
updateVehiclePhysics003(vehicle, dt, obs) ==
    LET desired == desiredSpeed003(vehicle, obs)
        targetSpeed == (desired + 9 * vehicle.targetSpeed) \div 10
        speedDiff == targetSpeed - vehicle.speed
        speed == IF Abs(speedDiff) > 200
                 THEN ClampSpeed(vehicle.speed + Sign(speedDiff) * dt *
                                   (IF speedDiff > 0 THEN vehicle.acceleration
                                                     ELSE vehicle.deceleration),
                                 vehicle.maxSpeed)
                 ELSE vehicle.speed
        moving == vehicle.pathIndex < LastIndex(vehicle) /\ speed > 200
        target == Waypoint(vehicle, vehicle.pathIndex + 1)
        dist == Distance(vehicle.position, target)
        waitTime == IF speed < 1000 THEN vehicle.waitTime + dt
                    ELSE Max(0, vehicle.waitTime - dt \div 2)
    IN  [ vehicle EXCEPT
            !.targetSpeed = targetSpeed,
            !.speed = speed,
            !.position = IF moving /\ dist > 500
                         THEN MoveToward(vehicle.position, target, (speed * dt) \div 10000)
                         ELSE vehicle.position,
            !.velocity = IF moving /\ dist > 500
                         THEN Toward(vehicle.position, target, speed)
                         ELSE vehicle.velocity,
            !.pathIndex = IF moving /\ dist <= 500
                          THEN vehicle.pathIndex + 1 ELSE vehicle.pathIndex,
            !.waitTime = waitTime,
            !.isWaiting = IF speed < 1000 THEN waitTime > 1000 ELSE FALSE,
            !.co2Emitted = IF speed < 1000
                           THEN vehicle.co2Emitted + 150 * dt
                           ELSE vehicle.co2Emitted + (speed * dt) \div 200 ]

\* part_006 updateVehiclePhysics(vehicle, deltaTime).  updatedVehicle shares
\* its position vector with vehicle, so the waypoint test reads the moved
\* position.
updateVehiclePhysics006(vehicle, dt, obs) ==
    LET desired == desiredSpeed006(vehicle, obs)
        targetSpeed == (15 * desired + 85 * vehicle.targetSpeed) \div 100
        speedDiff == targetSpeed - vehicle.speed
        speed == IF Abs(speedDiff) > 1000
                 THEN ClampSpeed(vehicle.speed + Sign(speedDiff) * dt *
                                   (IF speedDiff > 0 THEN vehicle.acceleration
                                                     ELSE vehicle.deceleration),
                                 vehicle.maxSpeed)
                 ELSE vehicle.speed
        moving == vehicle.pathIndex < LastIndex(vehicle) /\ speed > 1000
        target == Waypoint(vehicle, vehicle.pathIndex + 1)
        position == IF moving
                    THEN MoveToward(vehicle.position, target, (speed * dt) \div 10000)
                    ELSE vehicle.position
    IN  [ vehicle EXCEPT
            !.targetSpeed = targetSpeed,
            !.speed = speed,
            !.position = position,
            !.velocity = IF moving THEN Toward(vehicle.position, target, speed)
                         ELSE vehicle.velocity,
            !.pathIndex = IF moving /\ Distance(position, target) < 2000
                          THEN vehicle.pathIndex + 1 ELSE vehicle.pathIndex,
            !.isWaiting = speed < 1000,
            !.waitTime = IF speed < 1000 THEN vehicle.waitTime + dt
                         ELSE vehicle.waitTime,
            !.co2Emitted = IF speed < 1000 THEN vehicle.co2Emitted + 200 * dt
                           ELSE vehicle.co2Emitted ]

\* part_000 updateVehicles: obstructions.find(...); 0 when there is none.
\* Obstructions sit 0.5 m above the road plane the vehicles move in.
RECURSIVE nearbyObstruction000(_, _, _)
nearbyObstruction000(pos, obs, i) ==
    IF i > Len(obs) THEN 0
    ELSE IF Within(pos.x - obs[i].x, 500, pos.z - obs[i].z, obs[i].sizeX + 5000)
         THEN i
         ELSE nearbyObstruction000(pos, obs, i + 1)

\* part_000 updateVehicles: the function mapped over the vehicle list, with
\* the trafficSignal and the obstruction list of its closure.
updateVehicle000(vehicle, dt, obs, signal) ==
    LET isApproachingIntersection ==
            /\ vehicle.pathIndex < LastIndex(vehicle)
            /\ Abs(vehicle.position.x) < 50000
            /\ Abs(vehicle.position.z) < 50000
        signalStop ==
            /\ isApproachingIntersection
            /\ \/ /\ vehicle.direction \in {"north", "south"}
                  /\ signal.northSouth \in {"red", "yellow"}
               \/ /\ vehicle.direction \in {"east", "west"}
                  /\ signal.eastWest \in {"red", "yellow"}
        near == nearbyObstruction000(vehicle.position, obs, 1)
        shouldStop == signalStop \/ (near # 0 /\ obs[near].blocked)
        maxSpeed == IF near # 0 /\ ~obs[near].blocked
                    THEN (vehicle.maxSpeed * (10000 - obs[near].speedReduction)) \div 10000
                    ELSE vehicle.maxSpeed
        speed == IF shouldStop
                 THEN Max(0, vehicle.speed - vehicle.deceleration * dt)
                 ELSE IF vehicle.speed < maxSpeed
                      THEN Min(maxSpeed, vehicle.speed + vehicle.acceleration * dt)
                      ELSE vehicle.speed
        moving == speed > 0 /\ vehicle.pathIndex < LastIndex(vehicle)
        target == Waypoint(vehicle, vehicle.pathIndex + 1)
        position == IF moving
                    THEN MoveToward(vehicle.position, target, (speed * dt) \div 10000)
                    ELSE vehicle.position
    IN  [ vehicle EXCEPT
            !.maxSpeed = maxSpeed,
            !.speed = speed,
            !.position = position,
            !.pathIndex = IF moving /\ Distance(position, target) < 2000
                          THEN vehicle.pathIndex + 1 ELSE vehicle.pathIndex,
            !.isWaiting = shouldStop,
            !.waitTime = IF shouldStop THEN vehicle.waitTime + dt ELSE vehicle.waitTime,
            !.co2Emitted = IF shouldStop THEN vehicle.co2Emitted + (2 * dt) \div 10
                           ELSE vehicle.co2Emitted ]

\* part_000 updateVehicles: the filter keeps a vehicle that has not reached
\* its last waypoint or is still more than 5 m from it.
keepVehicle000(vehicle) ==
    \/ vehicle.pathIndex < LastIndex(vehicle)
    \/ Distance(vehicle.position, Waypoint(vehicle, LastIndex(vehicle))) > 5000

\* A plausible slip: the waypoint index jumps two at a time.
advancePathIndexESC_Skip(pathIndex, last) == pathIndex + 2

\* esc updateVehicle: Math.min(pathIndex + 1, path.length - 1)
advancePathIndexESC(pathIndex, last) == Min(pathIndex + 1, last)

\* esc updateVehicle: the distances to the vehicles ahead (dot product of the
\* unit vectors above 0.7, closer than 15 m).
vehiclesAheadESC(vehicle, target, allVehicles) ==
    LET len == Distance(vehicle.position, target)
        ux == UnitComponent(target.x - vehicle.position.x, len)
        uz == UnitComponent(target.z - vehicle.position.z, len)
    IN  { Distance(vehicle.position, allVehicles[j].position) :
            j \in { k \in 1 .. Len(allVehicles) :
                      LET other == allVehicles[k]
                          d == Distance(vehicle.position, other.position)
                          ox == UnitComponent(other.position.x - vehicle.position.x, d)
                          oz == UnitComponent(other.position.z - vehicle.position.z, d)
                      IN  /\ other.id # vehicle.id
                          /\ d < 15000
                          /\ (ux * ox + uz * oz) * 10 > 7 * 2048 * 2048 } }

SetMin(S) == CHOOSE m \in S : \A n \in S : m <= n

\* esc updateVehicle(vehicle, deltaTime, allVehicles) with the obstruction list
\* of its closure.  simulationMode is 'idle' in the closure the loop holds, so
\* the artificial delay of the baseline mode never applies.
updateVehicleESC(vehicle, dt, allVehicles, obs) ==
    IF vehicle.pathIndex >= LastIndex(vehicle) THEN vehicle
    ELSE
    LET target == Waypoint(vehicle, vehicle.pathIndex + 1)
        distance == Distance(vehicle.position, target)
        ahead == vehiclesAheadESC(vehicle, target, allVehicles)
        vehicleAhead == ahead # {}
        distanceToVehicleAhead == SetMin(ahead)
        scan == obstructionScan006(vehicle.position, obs, 1, FALSE, 10000)
        tooClose == vehicleAhead /\ distanceToVehicleAhead < vehicle.safetyDistance
        isBlocked == scan.isBlocked \/ tooClose
        speedMultiplier ==
            IF vehicleAhead /\ ~tooClose
            THEN IF distanceToVehicleAhead < vehicle.safetyDistance * 2
                 THEN (scan.speedMultiplier * 3) \div 10
                 ELSE IF distanceToVehicleAhead < vehicle.safetyDistance * 3
                 THEN (scan.speedMultiplier * 6) \div 10
                 ELSE scan.speedMultiplier
            ELSE scan.speedMultiplier
        targetSpeed == IF isBlocked THEN 0
                       ELSE (vehicle.maxSpeed * speedMultiplier) \div 10000
        newSpeed == vehicle.speed + TDiv((targetSpeed - vehicle.speed) * dt, 500)
    IN  [ vehicle EXCEPT
            !.position = MoveToward(vehicle.position, target, TDiv(newSpeed * dt, 10000)),
            !.speed = newSpeed,
            !.pathIndex = IF distance < 5000
                          THEN advancePathIndexESC(vehicle.pathIndex, LastIndex(vehicle))
                          ELSE vehicle.pathIndex,
            !.waitTime = IF isBlocked THEN vehicle.waitTime + dt ELSE 0,
            !.co2Emitted = vehicle.co2Emitted + TDiv(newSpeed * dt, 10000) ]

-----------------------------------------------------------------------------
(* The animation frame *)

\* Frames explored per run, vehicles spawned per run, the last frame whose
\* random draw may spawn, and the last frame before which the user edits the
\* obstruction list.
MaxFrames == 320
MaxSpawn == 1
MaxSpawnFrame == 0
MaxEditFrame == 1

\* deltaTime of a run, in ms.  part_003 clamps the frame interval to 16 ms and
\* scales it by the speed setting (0.25 .. 4); the others pass it on unclamped.
KinDts(v) ==
    CASE v = "p003" -> {0, 4, 16, 64}
      [] v = "p006" -> {0, 16, 250}
      [] v = "p000" -> {0, 16, 250}
      [] OTHER      -> {0, 16, 500, 1000}

\* Wall-clock time between two frames.
FrameMs == IF variant = "p003" /\ dtMs > 0 THEN 16 ELSE dtMs

\* currentTime / Date.now() of the frame being run.
Now == ClockStart + (frames + 1) * FrameMs

NoSpawn == [type |-> "none", direction |-> "north", targetDirection |-> "straight"]

\* The routes the random draw of spawnVehicle picks from in a run.
KinRoutes ==
    { << "north", "straight" >>, << "north", "right" >>,
      << "east", "left" >>, << "west", "straight" >> }

SpawnChoices ==
    {NoSpawn} \cup
    { [type |-> t, direction |-> r[1], targetDirection |-> r[2]] :
        t \in VehicleTypes, r \in KinRoutes }

\* A plausible slip: the live cap test admits one vehicle too many.
spawnGate003_Inclusive(count, id) == count <= 35 /\ id < 250

\* part_003 animate: currentVehicleCount < maxVehicles &&
\* vehicleIdCounter.current < 250
spawnGate003(count, id) == count < 35 /\ id < 250

\* A plausible slip: the lifetime cap test admits one vehicle too many.
spawnGate006_Inclusive(id) == id <= 300

\* part_006 animate: vehicleIdCounter.current < 300
spawnGate006(id) == id < 300

\* Whether this frame calls spawnVehicle() with the draw sp.
SpawnGuard(sp) ==
    LET spawns == sp.type # "none"
        room == vehicleIdCounter < MaxSpawn
    IN  CASE variant = "p003" ->
               spawns => ( /\ dtMs > 0            \* Math.random() < 0.2 * deltaTime
                           /\ spawnGate003(Len(vehicles), vehicleIdCounter)
                           /\ room /\ frames <= MaxSpawnFrame )
          [] variant = "p006" ->
               /\ spawns => ( /\ dtMs > 0         \* Math.random() < deltaTime
                              /\ spawnGate006(vehicleIdCounter)
                              /\ room /\ frames <= MaxSpawnFrame )
               /\ (dtMs >= 1000 /\ spawnGate006(vehicleIdCounter)) => spawns
          [] variant = "p000" ->
               spawns <=> (Now - lastSpawnTime > 1000 /\ room)
          [] OTHER ->
               spawns <=> (Now - lastSpawnTime > 2000 /\ room)

Spawned(sp) ==
    IF sp.type = "none" THEN << >>
    ELSE << newVehicle(variant, vehicleIdCounter, sp.type, sp.direction,
                       sp.targetDirection) >>

MapSeq(s, F(_)) == [i \in 1 .. Len(s) |-> F(s[i])]

\* A plausible slip: a vehicle counts as finished one waypoint early.
Unfinished_OneEarly(vehicle) == vehicle.pathIndex < LastIndex(vehicle) - 1

\* animate: the test that keeps a vehicle, !(pathIndex >= path.length - 1)
Unfinished(vehicle) == vehicle.pathIndex < LastIndex(vehicle)

\* The vehicle list after the frame's setVehicles calls.
FrameVehicles(sp) ==
    CASE variant = "p003" ->
           \* the updater drops finished vehicles, updates the rest; the spawn
           \* is appended afterwards
           MapSeq(SelectSeq(vehicles, Unfinished),
                  LAMBDA v : updateVehiclePhysics003(v, dtMs, obstructions))
             \o Spawned(sp)
      [] variant = "p006" ->
           SelectSeq(MapSeq(vehicles \o Spawned(sp),
                            LAMBDA v : updateVehiclePhysics006(v, dtMs, obstructions)),
                     Unfinished)
      [] variant = "p000" ->
           SelectSeq(MapSeq(vehicles \o Spawned(sp),
                            LAMBDA v : updateVehicle000(v, dtMs, obstructions, trafficSignal)),
                     keepVehicle000)
      [] OTHER ->
           SelectSeq(MapSeq(vehicles \o Spawned(sp),
                            LAMBDA v : updateVehicleESC(v, dtMs, vehicles \o Spawned(sp),
                                                        loopObstructions)),
                     Unfinished)

\* A plausible slip: part_003 also counts a vehicle on the frame in which it
\* reaches the end of its path, one frame before it is dropped.
FrameCompleted_Twice(sp) ==
    CASE variant = "p003" ->
           Len(vehicles) - Len(SelectSeq(vehicles, Unfinished))
             + Len(FrameVehicles(sp)) - Len(SelectSeq(FrameVehicles(sp), Unfinished))
      [] variant = "p006" ->
           Len(vehicles \o Spawned(sp)) - Len(FrameVehicles(sp))
      [] OTHER -> 0

\* Vehicles the frame counts as completed (part_003 / part_006).
FrameCompleted(sp) ==
    CASE variant = "p003" ->
           Len(vehicles) - Len(SelectSeq(vehicles, Unfinished))
      [] variant = "p006" ->
           Len(vehicles \o Spawned(sp)) - Len(FrameVehicles(sp))
      [] OTHER -> 0

\* A plausible slip: the signal update is not gated on the roundabout mode.
SignalDue_IgnoreRoundabout ==
    IF variant = "p003"
    THEN Now \div 100 # (Now - dtMs) \div 100
    ELSE TRUE

\* Whether the frame calls the signal update.
SignalDue ==
    CASE variant = "p003" ->
           ~isRoundabout /\ Now \div 100 # (Now - dtMs) \div 100
      [] variant = "p006" -> ~isRoundabout
      [] OTHER -> TRUE

\* Whether the frame writes the metrics.
MetricsDue ==
    IF variant = "p003"
    THEN Now \div 500 # (Now - dtMs) \div 500
    ELSE TRUE

\* updateMetrics: queueLengths, from the vehicle list of the render.
queueLengths(vs) ==
    [ d \in {"north", "south", "east", "west"} |->
        Cardinality({ i \in 1 .. Len(vs) : vs[i].direction = d /\ vs[i].isWaiting }) ]

RECURSIVE SumSeq(_)
SumSeq(s) == IF s = << >> THEN 0 ELSE Head(s) + SumSeq(Tail(s))

WaitingCount(vs) == Cardinality({ i \in 1 .. Len(vs) : vs[i].isWaiting })

\* A plausible slip: with no vehicle the average speed falls back to the
\* 15 m/s display default instead of 0.
updateMetrics003_DefaultAverage(vs, total, completed, elapsedMs) ==
    [ totalVehicles |-> total,
      activeVehicles |-> Len(vs),
      averageWaitTime |-> IF Len(vs) > 0
                          THEN SumSeq([i \in 1 .. Len(vs) |-> vs[i].waitTime]) \div Len(vs)
                          ELSE 0,
      averageSpeed |-> IF Len(vs) > 0
                       THEN SumSeq([i \in 1 .. Len(vs) |-> vs[i].speed]) \div Len(vs)
                       ELSE 150000,
      co2Emissions |-> SumSeq([i \in 1 .. Len(vs) |-> vs[i].co2Emitted]),
      congestionLevel |-> IF Len(vs) > 0
                          THEN (WaitingCount(vs) * 10000) \div Len(vs) ELSE 0,
      throughput |-> IF elapsedMs > 0
                     THEN (completed * 6000000) \div elapsedMs ELSE 0,
      queueLengths |-> queueLengths(vs) ]

\* A plausible slip: congestion is taken against the cap of 35 live vehicles
\* instead of the vehicles that are live.
updateMetrics003_PerCapacity(vs, total, completed, elapsedMs) ==
    [ totalVehicles |-> total,
      activeVehicles |-> Len(vs),
      averageWaitTime |-> IF Len(vs) > 0
                          THEN SumSeq([i \in 1 .. Len(vs) |-> vs[i].waitTime]) \div Len(vs)
                          ELSE 0,
      averageSpeed |-> IF Len(vs) > 0
                       THEN SumSeq([i \in 1 .. Len(vs) |-> vs[i].speed]) \div Len(vs)
                       ELSE 0,
      co2Emissions |-> SumSeq([i \in 1 .. Len(vs) |-> vs[i].co2Emitted]),
      congestionLevel |-> (WaitingCount(vs) * 10000) \div 35,
      throughput |-> IF elapsedMs > 0
                     THEN (completed * 6000000) \div elapsedMs ELSE 0,
      queueLengths |-> queueLengths(vs) ]

\* part_003 / part_006 updateMetrics: the record handed to setMetrics, from the
\* vehicle list vs of the render, the two counters, and
\* performance.now() - simulationStartTime.current (ms).
updateMetrics003(vs, total, completed, elapsedMs) ==
    LET activeVehicles == Len(vs)
        totalWaitTime == SumSeq([i \in 1 .. Len(vs) |-> vs[i].waitTime])
        totalSpeed == SumSeq([i \in 1 .. Len(vs) |-> vs[i].speed])
        totalCO2 == SumSeq([i \in 1 .. Len(vs) |-> vs[i].co2Emitted])
    IN  [ totalVehicles |-> total,
          activeVehicles |-> activeVehicles,
          averageWaitTime |-> IF activeVehicles > 0
                              THEN totalWaitTime \div activeVehicles ELSE 0,
          averageSpeed |-> IF activeVehicles > 0
                           THEN totalSpeed \div activeVehicles ELSE 0,
          co2Emissions |-> totalCO2,
          congestionLevel |-> IF activeVehicles > 0
                              THEN (WaitingCount(vs) * 10000) \div activeVehicles
                              ELSE 0,
          throughput |-> IF elapsedMs > 0
                         THEN (completed * 6000000) \div elapsedMs ELSE 0,
          queueLengths |-> queueLengths(vs) ]

\* part_000 updateMetrics: the average wait is over the waiting vehicles.
updateMetrics000(vs, total) ==
    LET waiting == SelectSeq(vs, LAMBDA v : v.isWaiting)
    IN  [ totalVehicles |-> total,
          activeVehicles |-> Len(vs),
          averageWaitTime |-> IF Len(waiting) > 0
                              THEN SumSeq([i \in 1 .. Len(waiting) |-> waiting[i].waitTime])
                                     \div Len(waiting)
                              ELSE 0,
          averageSpeed |-> IF Len(vs) > 0
                           THEN SumSeq([i \in 1 .. Len(vs) |-> vs[i].speed]) \div Len(vs)
                           ELSE 0,
          co2Emissions |-> SumSeq([i \in 1 .. Len(vs) |-> vs[i].co2Emitted]),
          congestionLevel |-> Min(10000, (Len(waiting) * 10000) \div Max(1, Len(vs))),
          throughput |-> 0,
          queueLengths |-> NoQueues ]

\* esc updateSimulation: the updater handed to setMetrics, with the vehicle
\* list vs of the closure that runs it.
updateMetricsESC(prev, vs) ==
    LET activeVehicles == Len(vs)
    IN  [ prev EXCEPT
            !.activeVehicles = activeVehicles,
            !.averageSpeed = IF activeVehicles > 0
                             THEN SumSeq([i \in 1 .. Len(vs) |-> vs[i].speed])
                                    \div activeVehicles
                             ELSE 0,
            !.averageWaitTime = IF activeVehicles > 0
                                THEN SumSeq([i \in 1 .. Len(vs) |-> vs[i].waitTime])
                                       \div activeVehicles
                                ELSE 0,
            !.congestionLevel = Min(10000, (activeVehicles * 10000) \div 20),
            !.co2Emissions = SumSeq([i \in 1 .. Len(vs) |-> vs[i].co2Emitted]) ]

\* esc: the vehicle list in the closure the loop runs, that of the first
\* render.
loopVehicles == << >>

\* The metrics a frame writes, for build v; completed is the value
\* updateMetrics reads from completedVehiclesRef.
FrameMetrics(sp, completed) ==
    CASE variant \in {"p003", "p006"} ->
           updateMetrics003(vehicles, vehicleIdCounter + Len(Spawned(sp)),
                            completed, Now - simulationStartTime)
      [] variant = "p000" ->
           updateMetrics000(vehicles, vehicleIdCounter + Len(Spawned(sp)))
      [] OTHER ->
           updateMetricsESC([metrics EXCEPT !.totalVehicles = @ + Len(Spawned(sp))],
                            loopVehicles)

\* Does the build's update treat a vehicle at pos as blocked by an obstruction
\* of the list obs?
InsideBlocking(pos, obs) ==
    IF variant = "p000"
    THEN LET near == nearbyObstruction000(pos, obs, 1)
         IN  near # 0 /\ obs[near].blocked
    ELSE obstructionScan006(pos, obs, 1, FALSE, 10000).isBlocked

\* One frame of the loop: animate(currentTime) of part_003 / part_006 /
\* part_000, updateSimulation() of esc.  The esc loop runs the closure of the
\* first render, in which isRunning is true and vehicles is empty.
FrameBody(sp) ==
    /\ variant = "esc" \/ isRunning
    /\ vehicles' = FrameVehicles(sp)
    /\ completedVehicles' = completedVehicles + FrameCompleted(sp)
    /\ vehicleIdCounter' = vehicleIdCounter + Len(Spawned(sp))
    /\ lastSpawnTime' = IF variant \in {"p000", "esc"} /\ sp.type # "none"
                        THEN Now ELSE lastSpawnTime
    /\ trafficSignal' = IF SignalDue
                        THEN updateSignal(variant, trafficSignal, dtMs)
                        ELSE trafficSignal
    /\ lastDt' = IF SignalDue THEN dtMs ELSE lastDt
    /\ elapsed' = IF SignalDue THEN Min(elapsed + dtMs, MaxElapsed + 1) ELSE elapsed
    \* the setVehicles updater that counts the completed vehicles may run
    \* before or after updateMetrics reads the counter
    /\ \E completed \in {completedVehicles, completedVehicles + FrameCompleted(sp)} :
          metrics' = IF MetricsDue THEN FrameMetrics(sp, completed) ELSE metrics
    /\ blockedRun' = IF /\ vehicles # << >>
                        /\ (variant = "p003" => Unfinished(vehicles[1]))
                        /\ InsideBlocking(vehicles[1].position, obstructions)
                     THEN Min(blockedRun + 1, MaxFrames)
                     ELSE 0
    /\ frames' = frames + 1
    /\ op' = "frame"
    /\ UNCHANGED << variant, obstructions, selectedTool, obstructionIdCounter,
                    isRunning, dtMs, loopObstructions, demoVars, loopVars, lastPlace,
                    isRoundabout, simulationStartTime >>

\* A frame of a run of SpecKin.
AnimateFrame(sp) ==
    /\ frames < MaxFrames
    /\ SpawnGuard(sp)
    /\ FrameBody(sp)

\* startSimulation, called between two frames while the simulation is stopped
\* (esc: paused).
StartSimulation ==
    /\ ~isRunning
    /\ isRunning' = TRUE
    /\ simulationStartTime' = IF variant \in {"p003", "p006"}
                              THEN ClockStart + frames * FrameMs
                              ELSE simulationStartTime
    /\ op' = "startSimulation"
    /\ UNCHANGED << variant, trafficSignal, metrics, vehicles, obstructions,
                    selectedTool, vehicleIdCounter, obstructionIdCounter,
                    completedVehicles, dtMs, loopObstructions, demoVars, loopVars, lastDt,
                    elapsed, lastPlace, blockedRun, frames, lastSpawnTime,
                    isRoundabout >>

KinFrame ==
    << variant, trafficSignal, metrics, vehicles, vehicleIdCounter,
       completedVehicles, isRunning, dtMs, loopObstructions, demoVars, loopVars,
       lastDt, elapsed, lastPlace, blockedRun, frames, lastSpawnTime,
       isRoundabout, simulationStartTime >>

\* addObstruction(obstruction) of part_003 / part_006 / part_000, called with
\* a record such as placeObstructionAtPosition builds.
AddObstruction(tool, x, z) ==
    /\ variant \in {"p003", "p006", "p000"}
    /\ Len(obstructions) < MaxObstructions
    /\ obstructionIdCounter < MaxObstructionId
    /\ obstructions' =
         addObstruction(obstructions, obstructionIdCounter,
                        IF variant = "p000" THEN Obstruction000(tool, x, z)
                                            ELSE Obstruction003(tool, x, z))
    /\ obstructionIdCounter' = obstructionIdCounter + 1
    /\ op' = "addObstruction"
    /\ UNCHANGED selectedTool
    /\ UNCHANGED KinFrame

\* esc placeObstruction(position, type): the record it builds.
ObstructionESC(tool, x, z) ==
    [ type |-> tool, x |-> x, z |-> z, sizeX |-> 10000,
      lane |-> 1, direction |-> "north",
      speedReduction |-> IF tool = "pothole" THEN 5000
                         ELSE IF tool = "vendor" THEN 3000 ELSE 0,
      capacityReduction |-> IF tool = "vendor" THEN 5000 ELSE 0,
      blocked |-> (tool = "barricade") ]

\* esc placeObstruction(position, type)
PlaceObstruction(tool, x, z) ==
    /\ variant = "esc"
    /\ Len(obstructions) < MaxObstructions
    /\ obstructionIdCounter < MaxObstructionId
    /\ obstructions' =
         addObstruction(obstructions, obstructionIdCounter, ObstructionESC(tool, x, z))
    /\ obstructionIdCounter' = obstructionIdCounter + 1
    /\ selectedTool' = "none"
    /\ op' = "placeObstruction"
    /\ UNCHANGED KinFrame

\* Obstructions of a run: a barricade or a pothole, on the north approach next
\* to the spawn point or where the north lane crosses the intersection.
KinTools == {"barricade", "pothole"}

KinPoints == { P(-3250, 248000), P(-3250, 0) }

InitKin == \E v \in Variants : \E d \in KinDts(v) : InitOf(v, d)

NextKin ==
    \/ StartSimulation
    \/ \E sp \in SpawnChoices : AnimateFrame(sp)
    \/ /\ frames <= MaxEditFrame
       /\ \E t \in KinTools, p \in KinPoints : AddObstruction(t, p.x, p.z)
    \/ /\ frames <= MaxEditFrame
       /\ \E t \in KinTools, p \in KinPoints : PlaceObstruction(t, p.x, p.z)
    \/ /\ frames <= MaxEditFrame
       /\ \E id \in 0 .. MaxObstructionId : RemoveObstruction(id)

SpecKin == InitKin /\ [][NextKin]_vars

-----------------------------------------------------------------------------
(* Claims about the vehicle update *)

\* C5: in part_003 and part_006, after spawn and after every frame, with any
\* deltaTime and any obstruction list, every vehicle has
\* 0 <= speed <= maxSpeed.
C5_SpeedBound ==
    (variant \in {"p003", "p006"}) =>
        \A i \in 1 .. Len(vehicles) :
            /\ 0 <= vehicles[i].speed
            /\ vehicles[i].speed <= vehicles[i].maxSpeed

\* C5 witness: a car in part_003 with a 64 ms deltaTime sits at maxSpeed, which
\* is not a whole number of acceleration steps: the ceiling has cut a step.
C5_Witness ==
    /\ variant = "p003"
    /\ op = "frame"
    /\ dtMs = 64
    /\ \E i \in 1 .. Len(vehicles) :
          /\ vehicles[i].type = "car"
          /\ vehicles[i].speed = vehicles[i].maxSpeed

\* C6 (as claimed): in EnhancedSimulationContext.tsx, for every deltaTime the
\* loop passes, the speed after updateVehicle stays within 0 .. maxSpeed.
C6_SpeedBoundESC ==
    (variant = "esc") =>
        \A i \in 1 .. Len(vehicles) :
            /\ 0 <= vehicles[i].speed
            /\ vehicles[i].speed <= vehicles[i].maxSpeed

\* C7: in every build, every live vehicle has 0 <= pathIndex <= path.length - 1,
\* and a frame leaves a vehicle's pathIndex unchanged or raises it by exactly 1.
C7_WaypointIndex ==
    [][ /\ \A j \in 1 .. Len(vehicles') :
              /\ 0 <= vehicles'[j].pathIndex
              /\ vehicles'[j].pathIndex <= LastIndex(vehicles'[j])
        /\ \A i \in 1 .. Len(vehicles), j \in 1 .. Len(vehicles') :
              (vehicles'[j].id = vehicles[i].id) =>
                  (vehicles'[j].pathIndex - vehicles[i].pathIndex \in {0, 1}) ]_vars

\* C7 witness: a vehicle has passed its first waypoint and is still live.
C7_Witness ==
    /\ op = "frame"
    /\ variant = "esc"
    /\ \E i \in 1 .. Len(vehicles) : vehicles[i].pathIndex = 1

\* Frames after which a blocked vehicle is claimed to stand still.
StopTicks == 200

\* C8 (as claimed): in part_003, a vehicle that has stayed inside a blocking
\* obstruction for StopTicks frames of a fixed deltaTime > 0 has speed exactly
\* 0, and keeps it on every later frame.
C8_BlockedZero ==
    ( /\ variant = "p003"
      /\ dtMs > 0
      /\ vehicles # << >>
      /\ blockedRun >= StopTicks )
    => vehicles[1].speed = 0

\* C9 (as claimed): in EnhancedSimulationContext.tsx, a frame treats every
\* vehicle that is within the radius of a barricade of the current obstruction
\* list as blocked: its wait time grows by deltaTime and its speed moves
\* toward 0.
C9_BarricadeSeen ==
    [][ (variant = "esc" /\ op' = "frame") =>
          \A i \in 1 .. Len(vehicles) :
              ( /\ InsideBlocking(vehicles[i].position, obstructions)
                /\ i <= Len(vehicles')
                /\ vehicles'[i].id = vehicles[i].id )
              => ( /\ vehicles'[i].waitTime = vehicles[i].waitTime + dtMs
                   /\ vehicles'[i].speed =
                        vehicles[i].speed + TDiv((0 - vehicles[i].speed) * dtMs, 500) ) ]_vars

-----------------------------------------------------------------------------
(* The command specification: the obstruction set under every command that  *)
(* creates or removes obstructions, in every build.                         *)

\* esc runBaselineSimulation: the two obstructions it installs (ids -1, -2 for
\* 'baseline-pothole-1', 'baseline-vendor-1').
BaselineObstructions ==
    << [ id |-> -1, type |-> "pothole", x |-> -3000, z |-> 5000, sizeX |-> 8000,
         lane |-> 1, direction |-> "north", speedReduction |-> 6000,
         capacityReduction |-> 0, blocked |-> FALSE ],
       [ id |-> -2, type |-> "vendor", x |-> 10000, z |-> -8000, sizeX |-> 6000,
         lane |-> 1, direction |-> "east", speedReduction |-> 4000,
         capacityReduction |-> 3000, blocked |-> FALSE ] >>

\* esc runBaselineSimulation (the state it sets; its 15 s timer stops the run)
RunBaselineSimulation ==
    /\ variant = "esc"
    /\ vehicles' = << >>
    /\ obstructions' = BaselineObstructions
    /\ isRunning' = TRUE
    /\ blockedRun' = 0
    /\ op' = "runBaselineSimulation"
    /\ UNCHANGED << variant, trafficSignal, metrics, selectedTool, vehicleIdCounter,
                    obstructionIdCounter, completedVehicles, dtMs, loopObstructions,
                    demoVars, loopVars, lastDt, elapsed, lastPlace, frames, lastSpawnTime,
                    isRoundabout, simulationStartTime >>

InitCommand == \E v \in Variants : InitOf(v, 0)

NextCommand ==
    \/ \E t \in Tools \cup {"none"} : SelectTool(t)
    \/ \E x \in PlaceCoords, z \in PlaceCoords : PlaceObstructionAtPosition(x, z)
    \/ \E t \in Tools, x \in PlaceCoords, z \in PlaceCoords : AddObstruction(t, x, z)
    \/ \E t \in Tools, x \in PlaceCoords, z \in PlaceCoords : PlaceObstruction(t, x, z)
    \/ \E id \in 0 .. MaxObstructionId : RemoveObstruction(id)
    \/ ClearAllObstructions
    \/ ResetToBaseline
    \/ ResetSimulation
    \/ RunBaselineSimulation

SpecCommand == InitCommand /\ [][NextCommand]_vars

\* C11 (as claimed): in every build, after any sequence of the commands that
\* create or remove obstructions, every obstruction of the set lies on the
\* road footprint.
C11_OnRoad ==
    \A i \in 1 .. Len(obstructions) :
        RoadFootprint(obstructions[i].x, obstructions[i].z)

-----------------------------------------------------------------------------
(* Claims about the metrics, the vehicle counters and the run modes *)

\* C12: in part_003, part_006 and part_000, a frame that computes the metrics
\* from an empty vehicle list writes activeVehicles = 0, zero averages, zero
\* congestion, zero CO2 and zero queue lengths, and a throughput >= 0; every
\* division of updateMetrics is guarded, for empty and non-empty lists alike.
C12_MetricsEmpty ==
    [][ ( /\ op' = "frame"
          /\ variant \in {"p003", "p006", "p000"}
          /\ MetricsDue
          /\ vehicles = << >> )
        => ( /\ metrics'.activeVehicles = 0
             /\ metrics'.averageWaitTime = 0
             /\ metrics'.averageSpeed = 0
             /\ metrics'.congestionLevel = 0
             /\ metrics'.co2Emissions = 0
             /\ metrics'.queueLengths = NoQueues
             /\ metrics'.throughput >= 0 ) ]_vars

\* C12 witness: in part_006 the only vehicle has completed, and the metrics of
\* the last frame were computed from the empty list: no active vehicle, a
\* positive throughput.
C12_Witness ==
    /\ op = "frame"
    /\ variant = "p006"
    /\ vehicles = << >>
    /\ completedVehicles = 1
    /\ metrics.activeVehicles = 0
    /\ metrics.totalVehicles = 1
    /\ metrics.throughput > 0

-----------------------------------------------------------------------------
(* The run specification: part_003 running without obstructions at a speed   *)
(* setting of 0.25, 1 or 4, observed until the last vehicle has left.        *)

\* Frames of a run.
MaxRunFrames == 15000

\* deltaTime (ms) of 60 fps frames at the speed settings 0.25, 1 and 4.
RunDts == {4, 16, 64}

RunFrame(sp) ==
    /\ frames < MaxRunFrames
    /\ vehicles # << >> \/ frames <= MaxSpawnFrame
    /\ SpawnGuard(sp)
    /\ FrameBody(sp)

InitRun == \E d \in RunDts : InitOf("p003", d)

NextRun ==
    \/ StartSimulation
    \/ \E sp \in SpawnChoices : RunFrame(sp)

SpecRun == InitRun /\ [][NextRun]_vars

\* The enabling condition of the frame action of a run (a draw that does not
\* spawn is always possible).
RunFrameEnabled ==
    /\ isRunning
    /\ frames < MaxRunFrames
    /\ vehicles # << >> \/ frames <= MaxSpawnFrame

\* Weak fairness of the frame action, WF_vars(\E sp : RunFrame(sp)), spelled
\* out with its enabling condition: requestAnimationFrame keeps calling
\* animate while the simulation runs.
RunFrameFairness ==
    \/ []<>(~RunFrameEnabled)
    \/ []<><< \E sp \in SpawnChoices : RunFrame(sp) >>_vars

SpecRunLive == SpecRun /\ WF_vars(StartSimulation) /\ RunFrameFairness

Live(id) == \E i \in 1 .. Len(vehicles) : vehicles[i].id = id

AtPathEnd(id) ==
    \E i \in 1 .. Len(vehicles) :
        vehicles[i].id = id /\ vehicles[i].pathIndex = LastIndex(vehicles[i])

\* C13: in part_003, running without obstructions at a speed setting between
\* 0.25 and 4, every spawned vehicle eventually reaches the last index of its
\* path and is then removed from the vehicle list.
C13_Completion ==
    \A id \in 0 .. (MaxSpawn - 1) :
        /\ Live(id) ~> AtPathEnd(id)
        /\ AtPathEnd(id) ~> ~Live(id)

\* C13 witness: at the speed setting 4 the spawned vehicle has reached the end
\* of its path and has been removed.
C13_Witness ==
    /\ variant = "p003"
    /\ dtMs = 64
    /\ metrics.totalVehicles = 1
    /\ vehicleIdCounter = 1
    /\ completedVehicles = 1
    /\ vehicles = << >>

\* C15 (as claimed): in part_003, the vehicle list a frame produces holds no
\* vehicle whose pathIndex is the last index of its path.
C15_RetiredSameTick ==
    (variant = "p003" /\ op = "frame") =>
        \A i \in 1 .. Len(vehicles) :
            vehicles[i].pathIndex # LastIndex(vehicles[i])

-----------------------------------------------------------------------------
(* The crowd specification: part_003 and part_006 under the heaviest        *)
(* arrivals, the spawn draw succeeding on every frame whose gate is open.   *)

\* Frames of a crowd run.
MaxCrowdFrames == 4800

\* Every arrival is a car going straight from the north.
CrowdSpawn == [type |-> "car", direction |-> "north", targetDirection |-> "straight"]

\* The spawn condition of animate with a draw that succeeds.
CrowdGateOpen ==
    /\ dtMs > 0
    /\ IF variant = "p003"
       THEN spawnGate003(Len(vehicles), vehicleIdCounter)
       ELSE spawnGate006(vehicleIdCounter)

CrowdFrame(sp) ==
    /\ frames < MaxCrowdFrames
    /\ vehicles # << >> \/ CrowdGateOpen
    /\ sp = IF CrowdGateOpen THEN CrowdSpawn ELSE NoSpawn
    /\ FrameBody(sp)

\* part_003 at the speed setting 4, part_006 at 4 frames a second.
InitCrowd == InitOf("p003", 64) \/ InitOf("p006", 250)

NextCrowd ==
    \/ StartSimulation
    \/ \E sp \in {NoSpawn, CrowdSpawn} : CrowdFrame(sp)

SpecCrowd == InitCrowd /\ [][NextCrowd]_vars

\* C14: in part_003 and part_006, after every frame, the vehicles spawned
\* since the last reset are the live vehicles plus the completed ones.
C14_Accounting ==
    (variant \in {"p003", "p006"}) =>
        vehicleIdCounter = Len(vehicles) + completedVehicles

\* C14 witness: in part_003 some vehicles have completed while others are
\* still on the road.
C14_Witness ==
    /\ variant = "p003"
    /\ op = "frame"
    /\ completedVehicles >= 2
    /\ Len(vehicles) >= 2

\* C16: in part_003 the vehicle list never holds more than 35 vehicles, and a
\* frame spawns only when the list it sees holds fewer than 35.
C16_ActiveCap ==
    [][ (variant = "p003") =>
          ( /\ Len(vehicles') <= 35
            /\ (vehicleIdCounter' > vehicleIdCounter) => (Len(vehicles) < 35) ) ]_vars

\* C16 witness: 35 vehicles are live in part_003 and the frames since have
\* spawned nothing.
C16_Witness ==
    /\ variant = "p003"
    /\ op = "frame"
    /\ Len(vehicles) = 35
    /\ vehicleIdCounter = 35
    /\ frames = 40

-----------------------------------------------------------------------------
(* The mode specification: frames interleaved with the commands that switch *)
(* the roundabout mode (part_003 / part_006) and pause the run (esc).       *)

\* Frames of a run with mode switches.
MaxModeFrames == 6

\* toggleRoundabout.  The roundabout geometry it installs only matters to
\* vehicles spawned in that mode, which the runs here do not draw.
ToggleRoundabout ==
    /\ variant \in {"p003", "p006"}
    /\ isRoundabout' = ~isRoundabout
    /\ op' = "toggleRoundabout"
    /\ UNCHANGED << variant, trafficSignal, metrics, vehicles, obstructions,
                    selectedTool, vehicleIdCounter, obstructionIdCounter,
                    completedVehicles, isRunning, dtMs, loopObstructions, demoVars, loopVars,
                    lastDt, elapsed, lastPlace, blockedRun, frames, lastSpawnTime,
                    simulationStartTime >>

\* esc pauseSimulation
PauseSimulation ==
    /\ variant = "esc"
    /\ isRunning
    /\ isRunning' = FALSE
    /\ op' = "pauseSimulation"
    /\ UNCHANGED << variant, trafficSignal, metrics, vehicles, obstructions,
                    selectedTool, vehicleIdCounter, obstructionIdCounter,
                    completedVehicles, dtMs, loopObstructions, demoVars, loopVars, lastDt,
                    elapsed, lastPlace, blockedRun, frames, lastSpawnTime,
                    isRoundabout, simulationStartTime >>

ModeFrame(sp) ==
    /\ frames < MaxModeFrames
    /\ SpawnGuard(sp)
    /\ isRoundabout => sp = NoSpawn
    /\ FrameBody(sp)

InitMode == \E v \in {"p003", "p006", "esc"} : \E d \in KinDts(v) : InitOf(v, d)

NextMode ==
    \/ StartSimulation
    \/ \E sp \in SpawnChoices : ModeFrame(sp)
    \/ ToggleRoundabout
    \/ PauseSimulation

SpecMode == InitMode /\ [][NextMode]_vars

\* The part of the signal state a tick of the controller changes.
SignalPhase == << trafficSignal.northSouth, trafficSignal.eastWest,
                  trafficSignal.timeRemaining >>

\* C18: in part_003 and part_006, a frame run while isRoundabout is true
\* leaves northSouth, eastWest and timeRemaining as they were, and so does
\* switching the mode on or off: the signal state at switch-off is the state
\* at switch-on.
C18_RoundaboutFreezesSignal ==
    [][ /\ (isRoundabout /\ op' = "frame") => (SignalPhase' = SignalPhase)
        /\ (op' = "toggleRoundabout") => (trafficSignal' = trafficSignal) ]_vars

\* C18 witness: part_006 ran frames of 250 ms with the signal counting down,
\* was switched to the roundabout, and has run further frames since.
C18_Witness ==
    /\ variant = "p006"
    /\ dtMs = 250
    /\ isRoundabout
    /\ op = "frame"
    /\ frames = 5
    /\ trafficSignal.timeRemaining = 29500

\* C19 (as claimed): in EnhancedSimulationContext.tsx, while isRunning is
\* false a frame of the loop changes neither the vehicle list, nor the signal,
\* nor the metrics, and spawns nothing.
C19_PauseStopsLoop ==
    [][ (variant = "esc" /\ ~isRunning /\ op' = "frame") =>
          ( /\ vehicles' = vehicles
            /\ trafficSignal' = trafficSignal
            /\ metrics' = metrics
            /\ vehicleIdCounter' = vehicleIdCounter ) ]_vars

\* activeVehicles, averageSpeed and averageWaitTime as computed from a list.
MeansOf(vs) ==
    [ activeVehicles |-> Len(vs),
      averageSpeed |-> IF Len(vs) > 0
                       THEN SumSeq([i \in 1 .. Len(vs) |-> vs[i].speed]) \div Len(vs)
                       ELSE 0,
      averageWaitTime |-> IF Len(vs) > 0
                          THEN SumSeq([i \in 1 .. Len(vs) |-> vs[i].waitTime]) \div Len(vs)
                          ELSE 0 ]

\* C20 (as claimed): in EnhancedSimulationContext.tsx, the metrics a frame
\* writes have activeVehicles, averageSpeed and averageWaitTime computed from
\* the live vehicle list (the list the frame started from, or the one it
\* produced).
C20_MetricsFromLiveSet ==
    [][ (variant = "esc" /\ op' = "frame") =>
          \E vs \in {vehicles, vehicles'} :
              /\ metrics'.activeVehicles = MeansOf(vs).activeVehicles
              /\ metrics'.averageSpeed = MeansOf(vs).averageSpeed
              /\ metrics'.averageWaitTime = MeansOf(vs).averageWaitTime ]_vars

-----------------------------------------------------------------------------
(* The session specification: part_003 with frames, obstruction edits, the  *)
(* signal optimizer and resetToBaseline interleaved.                        *)

\* Frames of a session.
MaxSessionFrames == 3

SessionFrame(sp) ==
    /\ frames < MaxSessionFrames
    /\ SpawnGuard(sp)
    /\ FrameBody(sp)

InitSession == \E d \in {16, 64} : InitOf("p003", d)

NextSession ==
    \/ StartSimulation
    \/ \E sp \in SpawnChoices : SessionFrame(sp)
    \/ \E t \in {"barricade", "none"} : SelectTool(t)
    \/ \E z \in {-6000, 0} : PlaceObstructionAtPosition(-3250, z)
    \/ \E q \in QueueSamples : MetricsSnapshot(q)
    \/ OptimizeSignals
    \/ ResetToBaseline

SpecSession == InitSession /\ [][NextSession]_vars

\* C21: in part_003, whatever the state before, the state resetToBaseline
\* leaves has no vehicle and no obstruction, the signal at (green, red) with
\* 30 s remaining, the duration table 30/5/30/5/2 with isOptimized false, and
\* the id counter and the completion counter at 0.
C21_Reset ==
    (variant = "p003" /\ op = "reset") =>
        /\ vehicles = << >>
        /\ obstructions = << >>
        /\ Joint = S0
        /\ trafficSignal.timeRemaining = 30000
        /\ trafficSignal.cycle = [ nsGreen |-> 30000, nsYellow |-> 5000,
                                   ewGreen |-> 30000, ewYellow |-> 5000,
                                   allRed |-> 2000 ]
        /\ trafficSignal.isOptimized = FALSE
        /\ vehicleIdCounter = 0
        /\ completedVehicles = 0

\* C21 witness: a reset after frames had run, an obstruction had been placed
\* and the render had seen a queue of 20 on the north approach.
C21_Witness ==
    /\ variant = "p003"
    /\ op = "reset"
    /\ frames = MaxSessionFrames
    /\ lastPlace = [x |-> -3250, z |-> -6000]
    /\ metrics.queueLengths.north = 20
    /\ lastDt > 0

-----------------------------------------------------------------------------
(* Claims about the objects the per-vehicle update shares with its input *)

\* part_003 updateVehiclePhysics: the record the caller handed in, as it is
\* after the call.  updatedVehicle = { ...vehicle } copies the references:
\* position is cloned before it is written, velocity is written in place by
\* updatedVehicle.velocity.set(...).
inputAfter003(vehicle, dt, obs) ==
    [ vehicle EXCEPT
        !.velocity = updateVehiclePhysics003(vehicle, dt, obs).velocity ]

\* part_006 updateVehiclePhysics: velocity is replaced by a new vector in the
\* copy, position is written in place by updatedVehicle.position.add(...).
inputAfter006(vehicle, dt, obs) ==
    [ vehicle EXCEPT
        !.position = updateVehiclePhysics006(vehicle, dt, obs).position ]

\* part_000 updateVehicles: newVehicle = { ...vehicle }, then
\* newVehicle.position.add(...) writes the shared position in place.
inputAfter000(vehicle, dt, obs, signal) ==
    [ vehicle EXCEPT
        !.position = updateVehicle000(vehicle, dt, obs, signal).position ]

\* The vehicle record of the previous snapshot after the frame has updated it.
InputAfterFrame(vehicle) ==
    CASE variant = "p003" -> inputAfter003(vehicle, dtMs, obstructions)
      [] variant = "p006" -> inputAfter006(vehicle, dtMs, obstructions)
      [] variant = "p000" -> inputAfter000(vehicle, dtMs, obstructions, trafficSignal)
      [] OTHER -> vehicle

\* Does the frame hand this vehicle of the previous snapshot to the update?
UpdatedByFrame(vehicle) == variant = "p003" => Unfinished(vehicle)

\* C22 (as claimed): in part_003, part_006 and part_000, a frame leaves the
\* position and the velocity of every vehicle record of the previous snapshot
\* as they were; only the returned records carry the new values.
C22_InputUntouched ==
    [][ (op' = "frame" /\ variant \in {"p003", "p006", "p000"}) =>
          \A i \in 1 .. Len(vehicles) :
              UpdatedByFrame(vehicles[i]) =>
                  /\ InputAfterFrame(vehicles[i]).position = vehicles[i].position
                  /\ InputAfterFrame(vehicles[i]).velocity = vehicles[i].velocity ]_vars

-----------------------------------------------------------------------------
(* Claims about what the vehicle update reads and keeps *)

\* C23 (as claimed): in part_000, every live vehicle has the maxSpeed, the
\* acceleration and the deceleration spawnVehicle assigned to its type,
\* after any number of frames, near an obstruction that does not block and
\* after leaving it.
C23_EnvelopeKept ==
    variant = "p000" =>
        \A i \in 1 .. Len(vehicles) :
            /\ vehicles[i].maxSpeed = PhysicsConfig000(vehicles[i].type).maxSpeed
            /\ vehicles[i].acceleration = PhysicsConfig000(vehicles[i].type).accel
            /\ vehicles[i].deceleration = PhysicsConfig000(vehicles[i].type).decel

\* The signal group that governs a vehicle's entry direction.
GoverningSignal(vehicle) ==
    IF vehicle.direction \in {"north", "south"}
    THEN trafficSignal.northSouth
    ELSE trafficSignal.eastWest

\* A vehicle on the approach segment of its path (it has not reached the stop
\* line waypoint), within 50 m of the junction center.
ApproachingJunction(vehicle) ==
    /\ vehicle.pathIndex = 0
    /\ Abs(vehicle.position.x) < 50000
    /\ Abs(vehicle.position.z) < 50000

\* C24 (as claimed): in part_003 and in EnhancedSimulationContext.tsx, a frame
\* that updates a vehicle approaching the junction center while its governing
\* signal group is red or yellow treats it as blocked: its speed goes down,
\* or stays at 0.
C24_SignalCompliance ==
    [][ (op' = "frame" /\ variant \in {"p003", "esc"}) =>
          \A i \in 1 .. Len(vehicles) : \A j \in 1 .. Len(vehicles') :
              ( /\ vehicles'[j].id = vehicles[i].id
                /\ ApproachingJunction(vehicles[i])
                /\ GoverningSignal(vehicles[i]) \in {"red", "yellow"} )
              => ( \/ vehicles'[j].speed = 0
                   \/ vehicles'[j].speed < vehicles[i].speed ) ]_vars

-----------------------------------------------------------------------------
(* Claims about the obstruction records *)

\* C25 (as claimed): in EnhancedSimulationContext.tsx, every obstruction of
\* the set has the effect of its type: a pothole reduces speed by 0.5 and
\* capacity by 0, a vendor by 0.3 and 0.5, a barricade by 0 and 0, and
\* blocked is true exactly for barricades.
C25_EffectByType ==
    variant = "esc" =>
        \A i \in 1 .. Len(obstructions) :
            LET o == obstructions[i] IN
            /\ o.type = "pothole" =>
                  (o.speedReduction = 5000 /\ o.capacityReduction = 0 /\ ~o.blocked)
            /\ o.type = "vendor" =>
                  (o.speedReduction = 3000 /\ o.capacityReduction = 5000 /\ ~o.blocked)
            /\ o.type = "barricade" =>
                  (o.speedReduction = 0 /\ o.capacityReduction = 0 /\ o.blocked)

-----------------------------------------------------------------------------
(* The path generator of part_003 in both junction modes *)

\* generateRoundaboutConfig: radius, in mm
radius == 20000

\* radius * cos(k * 2 * pi / 32) for k = 0 .. 8, rounded to mm
QuarterCos == << 20000, 19616, 18478, 16629, 14142, 11111, 7654, 3902, 0 >>

\* Math.cos(angle) * radius for angle = (i / 32) * 2 * pi, i in 0 .. 31
RingCos(i) ==
    IF i <= 8 THEN QuarterCos[i + 1]
    ELSE IF i <= 16 THEN -QuarterCos[16 - i + 1]
    ELSE IF i <= 24 THEN -QuarterCos[i - 16 + 1]
    ELSE QuarterCos[32 - i + 1]

\* Math.sin(angle) * radius
RingSin(i) == RingCos((i + 24) % 32)

\* generateRoundaboutConfig: the arrays it returns, indexed from 0 as in the
\* source
circulatoryPath(i) == P(RingCos(i), RingSin(i))

entryPoints(i) ==
    CASE i = 0 -> P(0, radius + 10000)
      [] i = 1 -> P(0, -radius - 10000)
      [] i = 2 -> P(radius + 10000, 0)
      [] i = 3 -> P(-radius - 10000, 0)

exitPoints(i) ==
    CASE i = 0 -> P(0, -radius - 10000)
      [] i = 1 -> P(0, radius + 10000)
      [] i = 2 -> P(-radius - 10000, 0)
      [] i = 3 -> P(radius + 10000, 0)

entryIndex(direction) ==
    CASE direction = "north" -> 0
      [] direction = "south" -> 1
      [] direction = "east"  -> 2
      [] OTHER               -> 3

\* generateVehiclePath, roundabout branch: the approach point
approachPoint(direction) ==
    P( IF direction \in {"north", "south"}
       THEN (IF direction = "north" THEN -3250 ELSE 3250)
       ELSE (IF direction = "east" THEN 250000 ELSE -250000),
       IF direction \in {"east", "west"}
       THEN (IF direction = "east" THEN 3250 ELSE -3250)
       ELSE (IF direction = "north" THEN 250000 ELSE -250000) )

\* A plausible slip: the end index is not reduced modulo 32.
endCircIndex_NoWrap(startCircIndex, targetDirection) ==
    CASE targetDirection = "straight" -> startCircIndex + 16
      [] targetDirection = "right"    -> startCircIndex + 8
      [] targetDirection = "left"     -> startCircIndex + 24
      [] OTHER                        -> startCircIndex

\* generateVehiclePath, roundabout branch: endCircIndex
endCircIndex(startCircIndex, targetDirection) ==
    CASE targetDirection = "straight" -> (startCircIndex + 16) % 32
      [] targetDirection = "right"    -> (startCircIndex + 8) % 32
      [] targetDirection = "left"     -> (startCircIndex + 24) % 32
      [] OTHER                        -> startCircIndex

\* The marker for a loop that never ends.
Diverges == -1

\* generateVehiclePath, roundabout branch: the ring indices the while loop
\* pushes, from currentIndex until it equals endIndex.  currentIndex takes
\* 32 values, so a loop that has run 32 times without ending never ends.
RECURSIVE ringIndices(_, _, _)
ringIndices(currentIndex, endIndex, steps) ==
    IF currentIndex = endIndex THEN << >>
    ELSE IF steps = 32 THEN << Diverges >>
    ELSE << currentIndex >> \o ringIndices((currentIndex + 1) % 32, endIndex, steps + 1)

exitIndex(direction, targetDirection) ==
    (entryIndex(direction) +
       (IF targetDirection = "right" THEN 1
        ELSE IF targetDirection = "straight" THEN 2 ELSE 3)) % 4

\* generateVehiclePath, roundabout branch.  A ring walk that never ends
\* returns no path.
roundaboutPath(direction, targetDirection) ==
    LET startCircIndex == entryIndex(direction) * 8
        ring == ringIndices(startCircIndex,
                            endCircIndex(startCircIndex, targetDirection), 0)
    IN  IF ring # << >> /\ ring[Len(ring)] = Diverges
        THEN << >>
        ELSE << approachPoint(direction), entryPoints(entryIndex(direction)) >>
               \o [k \in 1 .. Len(ring) |-> circulatoryPath(ring[k])]
               \o << exitPoints(exitIndex(direction, targetDirection)) >>

\* generateVehiclePath(direction, targetDirection) of part_003 with the
\* isRoundabout && roundaboutConfig of its closure
generateVehiclePath003In(roundabout, direction, targetDirection) ==
    IF roundabout
    THEN roundaboutPath(direction, targetDirection)
    ELSE generateVehiclePath003(direction, targetDirection)

Directions == {"north", "south", "east", "west"}

TargetDirections == {"straight", "left", "right"}

\* Vehicles spawned per session of path generation.
MaxPathSpawns == 2

\* spawnVehicle() of part_003 with its three random draws, in the junction
\* mode of the render.
SpawnVehicle(type, direction, targetDirection) ==
    LET path == generateVehiclePath003In(isRoundabout, direction, targetDirection)
        vehicle == [ newVehicle("p003", vehicleIdCounter, type, direction,
                                targetDirection)
                       EXCEPT !.path = path, !.position = path[1] ]
    IN  /\ variant = "p003"
        /\ vehicleIdCounter < MaxPathSpawns
        /\ path # << >>
        /\ vehicles' = vehicles \o << vehicle >>
        /\ vehicleIdCounter' = vehicleIdCounter + 1
        /\ op' = "spawnVehicle"
        /\ UNCHANGED << variant, trafficSignal, metrics, obstructions, selectedTool,
                        obstructionIdCounter, completedVehicles, isRunning, dtMs,
                        loopObstructions, demoVars, loopVars, lastDt, elapsed, lastPlace,
                        blockedRun, frames, lastSpawnTime, isRoundabout,
                        simulationStartTime >>

InitPath == InitOf("p003", 16)

NextPath ==
    \/ ToggleRoundabout
    \/ \E t \in VehicleTypes, d \in Directions, td \in TargetDirections :
          SpawnVehicle(t, d, td)
    \/ ResetToBaseline

SpecPath == InitPath /\ [][NextPath]_vars

\* The vehicle the last spawnVehicle() appended.
LastSpawned == vehicles[Len(vehicles)]

\* C26 (as claimed): in part_003 with the roundabout off, the path of a
\* vehicle spawned for any entry direction and turn intent has between 2 and
\* 6 waypoints, and its first waypoint is the spawn point of the entry
\* direction.
C26_PathSize ==
    (variant = "p003" /\ op = "spawnVehicle" /\ ~isRoundabout) =>
        /\ Len(LastSpawned.path) >= 2
        /\ Len(LastSpawned.path) <= 6
        /\ LastSpawned.path[1] = approachPoint(LastSpawned.direction)

\* Ring points the claim gives each turn intent.
ArcPoints(targetDirection) ==
    CASE targetDirection = "right"    -> 8
      [] targetDirection = "straight" -> 16
      [] targetDirection = "left"     -> 24

\* C27: in part_003 with the roundabout active, the path of a spawned vehicle
\* is the approach point, the entry point of its direction, then 8 (right),
\* 16 (straight) or 24 (left) ring points with consecutive indices modulo 32
\* starting at 8 * entryIndex, then one exit point; the ring walk ends for
\* every entry direction and turn intent.
C27_RoundaboutArc ==
    /\ \A d \in Directions, td \in TargetDirections :
          roundaboutPath(d, td) # << >>
    /\ (variant = "p003" /\ op = "spawnVehicle" /\ isRoundabout) =>
          LET v == LastSpawned
              n == ArcPoints(v.targetDirection)
              start == 8 * entryIndex(v.direction)
          IN  /\ Len(v.path) = n + 3
              /\ v.path[1] = approachPoint(v.direction)
              /\ v.path[2] = entryPoints(entryIndex(v.direction))
              /\ \A k \in 0 .. (n - 1) :
                    v.path[3 + k] = circulatoryPath((start + k) % 32)
              /\ v.path[n + 3] \in { exitPoints(e) : e \in 0 .. 3 }

\* C27 witness: a vehicle spawned from the west with intent left while the
\* roundabout is active: its ring walk starts at index 24 and wraps past 31.
C27_Witness ==
    /\ variant = "p003"
    /\ op = "spawnVehicle"
    /\ isRoundabout
    /\ LastSpawned.direction = "west"
    /\ LastSpawned.targetDirection = "left"
    /\ Len(LastSpawned.path) = 27
    /\ LastSpawned.path[3] = circulatoryPath(24)
    /\ LastSpawned.path[26] = circulatoryPath(15)

-----------------------------------------------------------------------------
(* Further claims about the signal controller *)

\* C28 (as claimed): in part_000, whenever a tick of the controller turns
\* either group green, the joint state before the tick was all-red
\* (red, red), at the hand-over to east-west and at the hand-over back to
\* north-south.
C28_AllRedBeforeGreen ==
    [][ (variant = "p000" /\ op' = "signalTick") =>
          /\ (trafficSignal.northSouth # "green" /\ trafficSignal'.northSouth = "green")
                => (Joint = S2)
          /\ (trafficSignal.eastWest # "green" /\ trafficSignal'.eastWest = "green")
                => (Joint = S2) ]_vars

\* The duration the table c holds for the joint state j.
DurationOf(c, j) ==
    CASE j = S0 -> c.nsGreen
      [] j = S1 -> c.nsYellow
      [] j = S2 -> c.allRed
      [] j = S3 -> c.ewGreen
      [] j = S4 -> c.ewYellow

\* C29: in part_003, a tick of the controller that changes the phase sets
\* timeRemaining to the duration the current table holds for the phase
\* entered (so a duration optimizeSignals changed is used at the next entry),
\* and after every tick 0 < timeRemaining <= that duration.
C29_CountdownReset ==
    [][ (variant = "p003" /\ op' = "signalTick") =>
          /\ (Joint' # Joint) =>
                (trafficSignal'.timeRemaining = DurationOf(trafficSignal'.cycle, Joint'))
          /\ trafficSignal'.cycle = trafficSignal.cycle
          /\ trafficSignal'.timeRemaining > 0
          /\ trafficSignal'.timeRemaining <= DurationOf(trafficSignal'.cycle, Joint') ]_vars

\* C29 witness: part_003 has come round to north-south green after
\* optimizeSignals raised nsGreen to 35 s, and the countdown starts at 35 s.
C29_Witness ==
    /\ variant = "p003"
    /\ op = "signalTick"
    /\ Joint = S0
    /\ elapsed > 0
    /\ trafficSignal.cycle.nsGreen = 35000
    /\ trafficSignal.timeRemaining = 35000

\* C30 (as claimed): in part_003 with the roundabout off, every frame that
\* advances a vehicle by deltaTime also hands that deltaTime to the signal
\* controller, so the time taken from the signal countdown keeps up with the
\* time applied to the vehicles.
C30_SignalKeepsTime ==
    [][ ( /\ variant = "p003"
          /\ ~isRoundabout
          /\ op' = "frame"
          /\ \E i \in 1 .. Len(vehicles) : Unfinished(vehicles[i]) )
        => ( /\ elapsed' = Min(elapsed + dtMs, MaxElapsed + 1)
             /\ trafficSignal' = updateTrafficSignals003(trafficSignal, dtMs) ) ]_vars

-----------------------------------------------------------------------------
(* The scan specification: part_003 and part_006 with a vehicle at the north *)
(* spawn point and several obstructions around it, in every order.          *)

\* Obstructions of a scan run, and its frames.
MaxScanObstructions == 3
MaxScanFrames == 2

\* addObstruction(obstruction) of part_003 / part_006 with a record such as
\* placeObstructionAtPosition builds, for runs with several obstructions.
ScanAddObstruction(tool, x, z) ==
    /\ variant \in {"p003", "p006"}
    /\ Len(obstructions) < MaxScanObstructions
    /\ obstructions' =
         addObstruction(obstructions, obstructionIdCounter, Obstruction003(tool, x, z))
    /\ obstructionIdCounter' = obstructionIdCounter + 1
    /\ op' = "addObstruction"
    /\ UNCHANGED selectedTool
    /\ UNCHANGED KinFrame

ScanFrame(sp) ==
    /\ frames < MaxScanFrames
    /\ sp.direction = "north" /\ sp.targetDirection = "straight"
    /\ sp.type \in {"none", "car"}
    /\ SpawnGuard(sp)
    /\ FrameBody(sp)

InitScan == InitOf("p003", 16) \/ InitOf("p006", 16)

NextScan ==
    \/ StartSimulation
    \/ \E sp \in SpawnChoices : ScanFrame(sp)
    \/ \E t \in Tools, p \in KinPoints : ScanAddObstruction(t, p.x, p.z)

SpecScan == InitScan /\ [][NextScan]_vars

\* distance(vehicle, obstruction) < size.x
Contains(o, pos) == Within(pos.x - o.x, 0, pos.z - o.z, o.sizeX)

\* The desired speed the build computes for a vehicle.
desiredSpeed(vehicle, obs) ==
    IF variant = "p003" THEN desiredSpeed003(vehicle, obs)
                        ELSE desiredSpeed006(vehicle, obs)

\* The product of (10 - speedReduction / 1000) over the obstructions of the
\* index set S, whatever order they are taken in.
RECURSIVE TenthsProduct(_, _)
TenthsProduct(obs, S) ==
    IF S = {} THEN 1
    ELSE LET k == CHOOSE k \in S : TRUE
         IN  ((10000 - obs[k].speedReduction) \div 1000) * TenthsProduct(obs, S \ {k})

RECURSIVE PowerOfTen(_)
PowerOfTen(n) == IF n = 0 THEN 1 ELSE 10 * PowerOfTen(n - 1)

\* C31: in part_003 and part_006, for every live vehicle and obstruction list,
\* the desired speed before smoothing is 0 if a blocking obstruction contains
\* the vehicle, and otherwise maxSpeed times the product of
\* (1 - speedReduction) over the non-blocking obstructions that contain it;
\* it is the same for every order of the obstruction list.
C31_DesiredSpeed ==
    variant \in {"p003", "p006"} =>
        \A i \in 1 .. Len(vehicles) :
            LET v == vehicles[i]
                containing == { k \in 1 .. Len(obstructions) :
                                  Contains(obstructions[k], v.position) }
                slowing == { k \in containing : ~obstructions[k].blocked }
            IN  /\ desiredSpeed(v, obstructions) =
                      IF \E k \in containing : obstructions[k].blocked
                      THEN 0
                      ELSE (v.maxSpeed * TenthsProduct(obstructions, slowing))
                             \div PowerOfTen(Cardinality(slowing))
                /\ \A f \in Permutations(1 .. Len(obstructions)) :
                      desiredSpeed(v, [k \in 1 .. Len(obstructions) |-> obstructions[f[k]]])
                        = desiredSpeed(v, obstructions)

\* C31 witness: in part_003 a car stands inside a pothole, a barricade and a
\* vendor stall, listed in that order, so the scan stops before the stall.
C31_Witness ==
    /\ variant = "p003"
    /\ Len(vehicles) = 1
    /\ Len(obstructions) = 3
    /\ obstructions[1].type = "pothole"
    /\ obstructions[2].type = "barricade"
    /\ obstructions[3].type = "vendor"
    /\ \A k \in 1 .. 3 : Contains(obstructions[k], vehicles[1].position)
    /\ desiredSpeed003(vehicles[1], obstructions) = 0

-----------------------------------------------------------------------------
(* Claims about wait time, emissions and congestion *)

\* C32: in part_003, after every frame each live vehicle has isWaiting true
\* exactly when its speed is below 0.1 m/s and its waitTime exceeds 1 s, and
\* waitTime >= 0; a vehicle the frame updated has waitTime grown by dt if its
\* new speed is below 0.1 m/s, and otherwise lowered by dt / 2, not below 0.
C32_WaitingHysteresis ==
    [][ (variant = "p003" /\ op' = "frame") =>
          /\ \A j \in 1 .. Len(vehicles') :
                /\ vehicles'[j].isWaiting
                      = (vehicles'[j].speed < 1000 /\ vehicles'[j].waitTime > 1000)
                /\ vehicles'[j].waitTime >= 0
          /\ \A i \in 1 .. Len(vehicles) : \A j \in 1 .. Len(vehicles') :
                (vehicles'[j].id = vehicles[i].id) =>
                    vehicles'[j].waitTime =
                        IF vehicles'[j].speed < 1000
                        THEN vehicles[i].waitTime + dtMs
                        ELSE Max(0, vehicles[i].waitTime - dtMs \div 2) ]_vars

\* C32 witness: a part_003 vehicle held by a barricade has waited more than a
\* second and is flagged as waiting.
C32_Witness ==
    /\ variant = "p003"
    /\ op = "frame"
    /\ Len(vehicles) = 1
    /\ vehicles[1].speed < 1000
    /\ vehicles[1].waitTime > 1000
    /\ vehicles[1].isWaiting

\* C33 (as claimed): in part_006, a frame that leaves a vehicle moving
\* (speed >= 0.1 m/s) leaves its waitTime at 0 or strictly below what it was.
C33_WaitDecays ==
    [][ (variant = "p006" /\ op' = "frame") =>
          \A i \in 1 .. Len(vehicles) : \A j \in 1 .. Len(vehicles') :
              (vehicles'[j].id = vehicles[i].id /\ vehicles'[j].speed >= 1000) =>
                  ( \/ vehicles'[j].waitTime = 0
                    \/ vehicles'[j].waitTime < vehicles[i].waitTime ) ]_vars

\* C34 (as claimed): in part_003, the co2Emissions of the metrics a frame
\* leaves is never below the co2Emissions of the metrics before the frame,
\* also when a vehicle that has emitted CO2 has left the vehicle list.
C34_EmissionsCumulative ==
    [][ (variant = "p003" /\ op' = "frame") =>
          metrics'.co2Emissions >= metrics.co2Emissions ]_vars

\* C35: in part_003 and part_000, a frame that writes the metrics from the
\* vehicle list of its render writes congestionLevel = 100 * waiting / active
\* (0 with no vehicle), which lies in 0 .. 100, and in part_003 queue lengths
\* that sum to the number of waiting vehicles.
C35_CongestionRatio ==
    [][ (variant \in {"p003", "p000"} /\ op' = "frame" /\ MetricsDue) =>
          LET active == Len(vehicles)
              waiting == Cardinality({ i \in 1 .. Len(vehicles) : vehicles[i].isWaiting })
              q == metrics'.queueLengths
          IN  /\ metrics'.activeVehicles = active
              /\ metrics'.congestionLevel =
                    IF active > 0 THEN (waiting * 10000) \div active ELSE 0
              /\ metrics'.congestionLevel >= 0
              /\ metrics'.congestionLevel <= 10000
              /\ (variant = "p003") =>
                    (q.north + q.south + q.east + q.west = waiting) ]_vars

\* C35 witness: part_003 has written metrics for a single vehicle that waits
\* on the north approach: congestion 100 %, north queue 1.
C35_Witness ==
    /\ variant = "p003"
    /\ op = "frame"
    /\ metrics.activeVehicles = 1
    /\ metrics.congestionLevel = 10000
    /\ metrics.queueLengths.north = 1

-----------------------------------------------------------------------------
(* Claims about the signal optimizer, demo mode and the roundabout exits *)

\* C36: a call of optimizeSignals (part_003) leaves both phases and the
\* countdown unchanged; it changes nothing unless the four queue lengths of the
\* latest metrics average more than 5, and otherwise raises nsGreen and ewGreen
\* by 5 s each, capped at 60 s; so both greens stay within 30 .. 60 s and the
\* yellow and all-red durations keep their defaults.
C36_OptimizeSignals ==
    [][ (variant = "p003") =>
          LET q == metrics.queueLengths
              old == trafficSignal.cycle
              new == trafficSignal'.cycle
          IN  /\ (op' = "optimizeSignals") =>
                    /\ trafficSignal'.northSouth = trafficSignal.northSouth
                    /\ trafficSignal'.eastWest = trafficSignal.eastWest
                    /\ trafficSignal'.timeRemaining = trafficSignal.timeRemaining
                    /\ IF q.north + q.south + q.east + q.west > 20
                       THEN /\ new.nsGreen = Min(60000, old.nsGreen + 5000)
                            /\ new.ewGreen = Min(60000, old.ewGreen + 5000)
                       ELSE trafficSignal' = trafficSignal
              /\ new.nsGreen >= 30000 /\ new.nsGreen <= 60000
              /\ new.ewGreen >= 30000 /\ new.ewGreen <= 60000
              /\ new.nsYellow = nsYellowDefault
              /\ new.ewYellow = ewYellowDefault
              /\ new.allRed = allRedDefault ]_vars

\* C36 witness: repeated calls under long queues have raised both greens to
\* the cap.
C36_Witness ==
    /\ variant = "p003"
    /\ op = "optimizeSignals"
    /\ trafficSignal.cycle.nsGreen = 60000
    /\ trafficSignal.cycle.ewGreen = 60000
    /\ trafficSignal.isOptimized

\* Vehicles the spawn timers may add per session.
MaxDemoSpawns == 4

\* The draws of spawnVehicle() a timer may make.
DemoSpawnChoices ==
    { [type |-> "car", direction |-> "north", targetDirection |-> "straight"],
      [type |-> "bus", direction |-> "east", targetDirection |-> "left"] }

\* EnhancedSimulationContext.tsx stopDemo
StopDemo ==
    /\ variant = "esc"
    /\ isDemoMode' = ApplyUpdates(DemoState, stopDemoUpdates).isDemoMode
    /\ currentScenario' = ApplyUpdates(DemoState, stopDemoUpdates).currentScenario
    /\ spawnTimers' = MarkStale(spawnTimers)
    /\ demoTimerStale' = (demoTimer # "none")
    /\ op' = "stopDemo"
    /\ UNCHANGED << variant, trafficSignal, metrics, vehicles, obstructions,
                    selectedTool, vehicleIdCounter, obstructionIdCounter,
                    completedVehicles, isRunning, dtMs, loopObstructions,
                    demoTimer, firedTimer, loopVars, lastDt, elapsed, lastPlace, blockedRun,
                    frames, lastSpawnTime, isRoundabout, simulationStartTime >>

\* A timer scheduled by resetSimulation or by the "rush_hour" scenario fires:
\* spawnVehicle() with the draws sp.
SpawnTimerFires(sp) ==
    /\ variant = "esc"
    /\ vehicleIdCounter < MaxDemoSpawns
    /\ \E t \in spawnTimers :
          /\ spawnTimers' = (spawnTimers \ {t}) \cup
                               IF t.i + 1 < BatchSize(t.by)
                               THEN {[t EXCEPT !.i = t.i + 1]} ELSE {}
          /\ firedTimer' = t
    /\ vehicles' = vehicles \o Spawned(sp)
    /\ vehicleIdCounter' = vehicleIdCounter + 1
    /\ metrics' = [metrics EXCEPT !.totalVehicles = @ + 1]
    /\ op' = "spawnTimer"
    /\ UNCHANGED << variant, trafficSignal, obstructions, selectedTool,
                    obstructionIdCounter, completedVehicles, isRunning, dtMs,
                    loopObstructions, demoTimer, isDemoMode, currentScenario,
                    demoTimerStale, loopVars, lastDt, elapsed, lastPlace, blockedRun,
                    frames, lastSpawnTime, isRoundabout, simulationStartTime >>

InitDemo == InitOf("esc", 16)

NextDemo ==
    \/ \E s \in DemoScenarios : StartDemo(s)
    \/ DemoTimerFires
    \/ StopDemo
    \/ ResetSimulation
    \/ \E sp \in DemoSpawnChoices : SpawnTimerFires(sp)

SpecDemo == InitDemo /\ [][NextDemo]_vars

\* C37 (as claimed): once the updates of startDemo(scenario) are applied,
\* isDemoMode is true and currentScenario is the scenario, and both stay so
\* until stopDemo or resetSimulation is called.
C37_DemoMode ==
    [][ /\ (op' = "startDemo") =>
              (isDemoMode' /\ currentScenario' = demoTimer')
        /\ (isDemoMode /\ op' \notin {"stopDemo", "reset", "startDemo"}) =>
              (isDemoMode' /\ currentScenario' = currentScenario) ]_vars

\* C38 (as claimed): no vehicle is added by a spawn timer that was scheduled
\* before the latest resetSimulation() or stopDemo().
C38_NoStaleSpawn ==
    [][ (op' = "spawnTimer") => ~firedTimer'.stale ]_vars

-----------------------------------------------------------------------------
(* The loop specification: the animation loops of part_002 and the          *)
(* updateSimulation each of them calls.  updateSimulation is re-created     *)
(* whenever isRunning or the identity of the vehicle array changes, and a   *)
(* running call of it always sets a fresh vehicle array; what the array     *)
(* holds has no part in that, and is not followed here.                     *)

\* Animation loops followed per session.
MaxLoops == 5

LoopFrame ==
    << variant, trafficSignal, metrics, vehicles, obstructions, selectedTool,
       vehicleIdCounter, obstructionIdCounter, completedVehicles, dtMs,
       loopObstructions, demoVars, lastDt, elapsed, lastPlace, blockedRun,
       frames, lastSpawnTime, isRoundabout, simulationStartTime >>

\* The animation-loop effect runs for a new updateSimulation: it has no
\* cleanup, so the loops started before stay live; animate() calls
\* updateSimulation at once, and a running call sets fresh state.
EffectRuns ==
    /\ variant = "p002"
    /\ pendingEffect
    /\ Len(loops) < MaxLoops
    /\ loops' = Append(loops, [isRunning |-> isRunning])
    /\ pendingEffect' = isRunning
    /\ op' = "effect"
    /\ UNCHANGED << isRunning, frameCalls >>
    /\ UNCHANGED LoopFrame

\* One animation frame: every live loop calls the updateSimulation it closed
\* over and requests the next frame.
AnimationFrame ==
    /\ variant = "p002"
    /\ loops # << >>
    /\ frameCalls' = Len(loops)
    /\ pendingEffect' = (pendingEffect \/ \E i \in 1 .. Len(loops) : loops[i].isRunning)
    /\ op' = "animationFrame"
    /\ UNCHANGED << isRunning, loops >>
    /\ UNCHANGED LoopFrame

\* part_002 startSimulation / pauseSimulation: setIsRunning(b)
SetIsRunning(b) ==
    /\ variant = "p002"
    /\ isRunning' = b
    /\ pendingEffect' = (pendingEffect \/ isRunning # b)
    /\ op' = "setIsRunning"
    /\ UNCHANGED << loops, frameCalls >>
    /\ UNCHANGED LoopFrame

InitLoop == InitOf("p002", 16)

NextLoop ==
    \/ EffectRuns
    \/ AnimationFrame
    \/ \E b \in BOOLEAN : SetIsRunning(b)

SpecLoop == InitLoop /\ [][NextLoop]_vars

\* C39 (as claimed): in part_002 at most one animation loop is live, and an
\* animation frame makes exactly one call of updateSimulation.
C39_SingleDriver ==
    /\ Len(loops) <= 1
    /\ (op = "animationFrame") => (frameCalls = 1)

-----------------------------------------------------------------------------
(* Claim about the exits of the roundabout *)

\* The last waypoint of the roundabout path from an entry for a turn intent.
ExitOf(direction, targetDirection) ==
    LET path == generateVehiclePath003In(TRUE, direction, targetDirection)
    IN  path[Len(path)]

\* C40 (as claimed): in part_003 with the roundabout on, the last waypoint of
\* a "straight" path is the point opposite the entry point of its direction
\* (exit = -entry), and the exits of "right", "straight" and "left" from one
\* entry are three distinct arms, none of them the entry arm.
C40_StraightExit ==
    (variant = "p003" /\ op = "spawnVehicle" /\ isRoundabout) =>
        LET direction == LastSpawned.direction
            path == LastSpawned.path
            entry == entryPoints(entryIndex(direction))
        IN  /\ (LastSpawned.targetDirection = "straight") =>
                  path[Len(path)] = P(-entry.x, -entry.z)
            /\ \A td \in TargetDirections : ExitOf(direction, td) # entry
            /\ \A td1, td2 \in TargetDirections :
                  (td1 # td2) => ExitOf(direction, td1) # ExitOf(direction, td2)

=============================================================================
